---- MODULE Spec2Model ----
(***************************************************************************)
(* A model of three parts of peloton:                                      *)
(*   - the job manager's cached task (jobmgr/cached/task.go): the runtime  *)
(*     cache, its validation of state transitions and PatchRuntime;        *)
(*   - the goal state action TaskFailRetry, which patches a failed task;   *)
(*   - the resource manager's leadership callbacks (resmgr/server.go).     *)
(* Each part has its own specification over the same variables; the parts  *)
(* a specification does not use stay at their initial values.              *)
(***************************************************************************)
EXTENDS Integers, Sequences, FiniteSets, TLC

VARIABLES
    runtime,    \* task.runtime: the cached RuntimeInfo, or Nil
    store,      \* the task store's RuntimeInfo of this task
    ret,        \* the last call on the task and how it ended
    taskConfig, \* the task's stored TaskConfig (RestartPolicy.MaxFailures)
    mu,         \* task.RWMutex: the caller holding it, or NoProc
    pc,         \* per caller: its position inside PatchRuntime
    loc,        \* per caller: the locals of its PatchRuntime call
    lin,        \* the runtime and store a sequential execution would hold
    spc,        \* Server: the position inside a leadership callback
    calls,      \* Server: Start/Stop calls made by the callback, in order
    started,    \* Server: the components whose Start returned nil last
    srvRet,     \* Server: what the last finished callback returned
    tasks,      \* resmgr: the stored tasks recovery reads (id -> state)
    tracker,    \* resmgr: the task ids the tracker holds
    queue,      \* resmgr: the task ids in the pool's pending queue
    resPools,   \* tree: the resource pools by id (children and config)
    pending,    \* per pool id: its pending queue, a sequence of gangs
    entitlement,\* per pool id: its current entitlement
    allocation, \* per pool id: its current allocation
    gangTasks,  \* per gang id: the states of the gang's tasks
    nextGang,   \* the enqueue stamp the next gang gets
    capacity,   \* the cluster capacity the host manager reports
    treeRet,    \* the last operation on the tree and how it ended
    offerPool,  \* hostmgr: the host offers that are ready and those placing
    held,       \* hostmgr: per acquirer, the offers handed to it
    pendingTasks,   \* resmgr: the tasks in a pool's pending queue
    placementQueue, \* resmgr: the tasks ready to be placed, with the reason
    assignments,    \* engine: the assignments of the group being placed
    placements, \* resmgr: the placements published by SetPlacements
    now,        \* the clock
    engineRet,  \* the last operation of the engine and what it returned
    jobRuntime, \* jobmgr: the stored runtime of the job (state, creation)
    taskStore,  \* jobmgr: per instance, the stored task state
    sentTasks,  \* resmgr: the instances it received and still holds
    goalStates, \* jobmgr: per instance, the goal state of the task
    hostKills,  \* hostmgr: the instances it was asked to kill
    jobRet,     \* the last operation of the job manager and how it ended
    mesosCalls, \* hostmgr: the calls sent to Mesos, in order
    hostRet,    \* hostmgr: the last request to it and its response
    hb,         \* health: the heartbeat (Running, stopChan, Mutex, callers)
    dtracker,   \* the deadline tracker (runningState, stopChan, lock, loops)
    reservedOffers, \* cleaner: the reserved offers held by the offer pool
    volumeStore,    \* cleaner: per volume id, the stored goal state
    cleanerRet  \* cleaner: the last Run, what it read and what it sent

taskVars == <<runtime, store, ret, taskConfig>>
concVars == <<mu, pc, loc, lin>>
srvVars  == <<spc, calls, started, srvRet, tasks, tracker, queue>>
treeVars == <<resPools, pending, entitlement, allocation, gangTasks, nextGang,
              capacity, treeRet>>
engineVars == <<offerPool, held, pendingTasks, placementQueue, assignments,
                placements, now, engineRet>>
jobVars  == <<jobRuntime, taskStore, sentTasks, goalStates, hostKills, jobRet>>
loopVars == <<hb, dtracker>>
cleanerVars == <<reservedOffers, volumeStore, cleanerRet>>
extVars  == <<mesosCalls, hostRet, loopVars, cleanerVars>>
vars     == <<runtime, store, ret, taskConfig, mu, pc, loc, lin,
              spc, calls, started, srvRet, tasks, tracker, queue,
              resPools, pending, entitlement, allocation, gangTasks, nextGang,
              capacity, treeRet,
              offerPool, held, pendingTasks, placementQueue, assignments,
              placements, now, engineRet,
              jobRuntime, taskStore, sentTasks, goalStates, hostKills, jobRet,
              mesosCalls, hostRet, hb, dtracker,
              reservedOffers, volumeStore, cleanerRet>>

----------------------------------------------------------------------------
(* Bounds of the model.                                                    *)

\* The run ids a mesos task id can carry: 1..MaxRunID.
MaxRunID == 2
\* The revision versions a runtime can carry: 0..MaxVersion.
MaxVersion == 2

----------------------------------------------------------------------------
(* Task states and their owners.                                           *)

jobMgrOwnedTaskStates == {"UNKNOWN", "INITIALIZED", "LAUNCHED", "KILLING"}

resMgrOwnedTaskStates ==
    {"PENDING", "READY", "PLACING", "PLACED", "LAUNCHING", "PREEMPTING"}

mesosOwnedTaskStates ==
    {"STARTING", "RUNNING", "SUCCEEDED", "FAILED", "LOST", "KILLED"}

TaskState == jobMgrOwnedTaskStates \cup resMgrOwnedTaskStates \cup mesosOwnedTaskStates

IsResMgrOwnedState(state) == state \in resMgrOwnedTaskStates

IsMesosOwnedState(state) == state \in mesosOwnedTaskStates

\* util.IsPelotonStateTerminal: the terminal states the specification lists.
IsPelotonStateTerminal(state) == state \in {"SUCCEEDED", "FAILED", "KILLED"}

----------------------------------------------------------------------------
(* Mesos task ids.  An id is absent (a nil TaskID, whose value reads as    *)
(* the empty string), "<job>-<instance>-<run id>", or the older            *)
(* "<job>-<instance>-<uuid>".                                              *)

uuidLength == 36

NoID == [fmt |-> "nil", run |-> 0]

RunID(n) == [fmt |-> "run", run |-> n]

UUIDID == [fmt |-> "uuid", run |-> 0]

MesosTaskIDs == {NoID, UUIDID} \cup {RunID(n) : n \in 1..MaxRunID}

\* len(id): a job id is a uuid, the instance and the run id one digit each.
IDLen(id) ==
    CASE id.fmt = "nil"  -> 0
      [] id.fmt = "run"  -> uuidLength + 4
      [] id.fmt = "uuid" -> 2 * uuidLength + 3

\* util.ParseRunID: the number after the last "-", an error when it is none.
ParseRunID(id) ==
    IF id.fmt = "run" THEN [err |-> FALSE, runID |-> id.run]
                      ELSE [err |-> TRUE, runID |-> 0]

validateMesosTaskID(mesosTaskID, prevMesosTaskID) ==
    IF IDLen(mesosTaskID) > 2 * uuidLength /\ IDLen(prevMesosTaskID) > 2 * uuidLength
    THEN TRUE
    ELSE IF ParseRunID(mesosTaskID).err
    THEN FALSE
    ELSE IF ParseRunID(prevMesosTaskID).err
    THEN IDLen(prevMesosTaskID) > 2 * uuidLength
    ELSE ParseRunID(mesosTaskID).runID >= ParseRunID(prevMesosTaskID).runID

----------------------------------------------------------------------------
(* RuntimeInfo and RuntimeDiff.                                            *)

Nil == [isNil |-> TRUE]

\* A nil Revision; otherwise the revision is its Version.
NoRevision == -1

Reasons == {"", "REASON_COMMAND_EXECUTOR_FAILED", "REASON_CONTAINER_LAUNCH_FAILED",
            "REASON_AGENT_REMOVED"}

RuntimeInfo(state, id, prev, desired, reason, message, revision) ==
    [isNil |-> FALSE, state |-> state, mesosTaskId |-> id, prevMesosTaskId |-> prev,
     desiredMesosTaskId |-> desired, reason |-> reason, message |-> message,
     revision |-> revision]

\* A RuntimeDiff maps some of the field names to their new values.
Absent(v) == [has |-> FALSE, v |-> v]

Present(v) == [has |-> TRUE, v |-> v]

RuntimeDiff(state, id, prev, desired, reason, message) ==
    [state |-> state, mesosTaskId |-> id, prevMesosTaskId |-> prev,
     desiredMesosTaskId |-> desired, reason |-> reason, message |-> message]

\* patch: every field the diff names is overwritten, the others are kept.
patch(rt, diff) ==
    [rt EXCEPT
       !.state = IF diff.state.has THEN diff.state.v ELSE @,
       !.mesosTaskId = IF diff.mesosTaskId.has THEN diff.mesosTaskId.v ELSE @,
       !.prevMesosTaskId = IF diff.prevMesosTaskId.has THEN diff.prevMesosTaskId.v ELSE @,
       !.desiredMesosTaskId =
           IF diff.desiredMesosTaskId.has THEN diff.desiredMesosTaskId.v ELSE @,
       !.reason = IF diff.reason.has THEN diff.reason.v ELSE @,
       !.message = IF diff.message.has THEN diff.message.v ELSE @]

----------------------------------------------------------------------------
(* task.validateState.                                                     *)

\* A fabric state is accepted from a fabric or resource manager state, from
\* INITIALIZED and LAUNCHED, and a terminal one from KILLING as well.
mesosStateAllowed(current, new) ==
    /\ IsMesosOwnedState(new)
    /\ \/ IsMesosOwnedState(current)
       \/ IsResMgrOwnedState(current)
       \/ current \in {"INITIALIZED", "LAUNCHED"}
       \/ /\ IsPelotonStateTerminal(new)
          /\ current = "KILLING"

\* resMgrStateAllowed without the check of the current state.
resMgrStateAllowedFromAny(current, new) == IsResMgrOwnedState(new)

\* A resource manager state is accepted from a resource manager state and
\* from INITIALIZED.
resMgrStateAllowed(current, new) ==
    /\ IsResMgrOwnedState(new)
    /\ \/ IsResMgrOwnedState(current)
       \/ current = "INITIALIZED"

\* LAUNCHED is accepted from a resource manager state and from INITIALIZED.
launchedAllowed(current, new) ==
    /\ new = "LAUNCHED"
    /\ \/ IsResMgrOwnedState(current)
       \/ current = "INITIALIZED"

\* terminalKept without the check.
terminalKeptNever(current, new) == TRUE

\* A terminal state is not overwritten without changing the mesos task id.
terminalKept(current, new) ==
    IsPelotonStateTerminal(current) => new = current

\* The check of a state change that keeps the mesos task id.
stateChangeAllowed(current, new) ==
    IF new = current
    THEN TRUE
    ELSE /\ terminalKept(current, new)
         /\ \/ mesosStateAllowed(current, new)
            \/ resMgrStateAllowed(current, new)
            \/ launchedAllowed(current, new)
            \/ new = "KILLING"

\* The desired mesos task id must not carry a lower run id.
desiredIDAllowed(currentRuntime, newRuntime) ==
    \/ newRuntime.desiredMesosTaskId = NoID
    \/ validateMesosTaskID(newRuntime.desiredMesosTaskId,
                           currentRuntime.desiredMesosTaskId)

\* newRunAllowed with the two mesos task ids compared the wrong way round.
newRunAllowedSwapped(currentRuntime, newRuntime) ==
    /\ validateMesosTaskID(currentRuntime.mesosTaskId, newRuntime.mesosTaskId)
    /\ newRuntime.state = "INITIALIZED"

\* The mesos task id has changed: its run id must not be lower, and the new
\* run starts in INITIALIZED.
newRunAllowed(currentRuntime, newRuntime) ==
    /\ validateMesosTaskID(newRuntime.mesosTaskId, currentRuntime.mesosTaskId)
    /\ newRuntime.state = "INITIALIZED"

validateState(currentRuntime, newRuntime) ==
    IF newRuntime.mesosTaskId # NoID
       /\ currentRuntime.mesosTaskId # newRuntime.mesosTaskId
    THEN newRunAllowed(currentRuntime, newRuntime)
    ELSE /\ desiredIDAllowed(currentRuntime, newRuntime)
         /\ stateChangeAllowed(currentRuntime.state, newRuntime.state)

----------------------------------------------------------------------------
(* task.PatchRuntime.                                                      *)

\* What can go wrong in one call, at most one thing per call.
PatchFaults == {"none", "nilDiff", "revisionField", "configErr", "readErr",
                "patchErr", "writeErr"}

Outcome(cache, st, err, verdict, wrote) ==
    [runtime |-> cache, store |-> st, err |-> err, verdict |-> verdict, wrote |-> wrote]

\* The runtime GetRunTime would return: the cache, or the store's when the
\* cache is empty.
Effective(cache, st) == IF cache.isNil THEN st ELSE cache

\* updateRevision: bumps the version of the cached runtime in place. The copy
\* made before shares the ChangeLog, unless the cached runtime had none: then
\* the new ChangeLog is the cached runtime's alone.
updateRevision(cached, copy) ==
    IF cached.revision = NoRevision
    THEN [cached |-> [cached EXCEPT !.revision = 1], copy |-> copy]
    ELSE [cached |-> [cached EXCEPT !.revision = @ + 1],
          copy |-> [copy EXCEPT !.revision = cached.revision + 1]]

\* ignoreDiff after a revision bump made before the validation.
ignoreDiffBumped(current, st) ==
    Outcome([current EXCEPT !.revision = @ + 1], st, "nil", "rejected", FALSE)

\* The diff failed validation: it is ignored.
ignoreDiff(current, st) == Outcome(current, st, "nil", "rejected", FALSE)

\* The diff passed validation: bump the revision, write, then cache.
persistDiff(current, newRuntime, st, fault) ==
    LET bumped == updateRevision(current, newRuntime) IN
    IF fault = "writeErr"
    THEN Outcome(Nil, st, "error", "accepted", TRUE)
    ELSE Outcome(bumped.copy, bumped.copy, "nil", "accepted", TRUE)

\* The part of PatchRuntime that runs under the task's lock.
patchLocked(cache, st, diff, fault) ==
    IF cache.isNil /\ fault = "readErr"
    THEN Outcome(cache, st, "error", "none", FALSE)
    ELSE LET current == IF cache.isNil THEN st ELSE cache
             newRuntime == patch(current, diff)
         IN IF fault = "patchErr"
            THEN Outcome(current, st, "error", "none", FALSE)
            ELSE IF ~validateState(current, newRuntime)
            THEN ignoreDiff(current, st)
            ELSE persistDiff(current, newRuntime, st, fault)

\* The whole call: the checks of the diff and the read of the job's
\* configuration come before the lock is taken.
patchRuntime(cache, st, diff, fault) ==
    IF fault \in {"nilDiff", "revisionField"}
    THEN Outcome(cache, st, "InvalidArgument", "none", FALSE)
    ELSE IF fault = "configErr"
    THEN Outcome(cache, st, "error", "none", FALSE)
    ELSE patchLocked(cache, st, diff, fault)

\* The revision stays within the model's bound.
VersionInBound(out) ==
    IF out.runtime.isNil THEN TRUE ELSE out.runtime.revision <= MaxVersion

\* What is kept of a call: how it ended and the state it found.
Ret(op, out, fromState) ==
    [op |-> op, err |-> out.err, verdict |-> out.verdict, wrote |-> out.wrote,
     fromState |-> fromState]

DoPatch(op, diff, fault) ==
    \E out \in {patchRuntime(runtime, store, diff, fault)} :
    /\ VersionInBound(out)
    /\ runtime' = out.runtime
    /\ store' = out.store
    /\ ret' = Ret(op, out, Effective(runtime, store).state)

CurrentRuntime == Effective(runtime, store)

----------------------------------------------------------------------------
(* The cached task on its own: any caller, any diff, one call at a time.   *)

StateParts == {Absent("INITIALIZED")} \cup {Present(s) : s \in TaskState}

IDParts == {Absent(NoID)} \cup {Present(i) : i \in MesosTaskIDs}

DesiredIDs == {NoID} \cup {RunID(n) : n \in 1..MaxRunID}

\* A diff that names the state, the mesos task id or both: a status update,
\* a move through the resource manager, a launch, a kill, a new run.
StatusDiffs ==
    {RuntimeDiff(s, i, Absent(NoID), Absent(NoID), Absent(""), Absent("")) :
        s \in StateParts, i \in IDParts}

\* A diff that names the desired mesos task id: a restart or an update, which
\* may start a new run (a new mesos task id, INITIALIZED) in the same diff.
RestartDiffs ==
    {RuntimeDiff(s, i, Absent(NoID), Present(d), Absent(""), Absent("")) :
        s \in {Absent("INITIALIZED"), Present("INITIALIZED")}, i \in IDParts,
        d \in DesiredIDs}

TaskDiffs == StatusDiffs \cup RestartDiffs

\* The diffs tried against a store that refuses the write.
StateDiffs ==
    {RuntimeDiff(s, Absent(NoID), Absent(NoID), Absent(NoID), Absent(""), Absent("")) :
        s \in StateParts}

EmptyDiff ==
    RuntimeDiff(Absent("INITIALIZED"), Absent(NoID), Absent(NoID), Absent(NoID),
                Absent(""), Absent(""))

InitRuntimes ==
    {RuntimeInfo("INITIALIZED", i, NoID, d, "", "", r) :
        i \in MesosTaskIDs, d \in DesiredIDs, r \in {NoRevision, 0}}

----------------------------------------------------------------------------
(* The resource pool tree: resources, pool configurations and gangs.       *)

\* The resource kinds of the model, two of cpu, memory, disk and gpu.
Kinds == {"cpu", "memory"}

Resources(cpu, memory) == [cpu |-> cpu, memory |-> memory]

ZeroResources == Resources(0, 0)

\* a fits b: a is not above b in any kind.
LessThanOrEqual(a, b) == \A k \in Kinds : a[k] <= b[k]

Add(a, b) == [k \in Kinds |-> a[k] + b[k]]

\* The part of a that b leaves, not below zero.
Subtract(a, b) == [k \in Kinds |-> IF a[k] < b[k] THEN 0 ELSE a[k] - b[k]]

Scale(a, n) == [k \in Kinds |-> a[k] * n]

RootResPoolID == "root"

\* The ids a resource pool can have; to "respool404" no pool is ever given.
ChildPoolIDs == {"respool1", "respool2", "respool11"}

PoolIDs == {RootResPoolID} \cup ChildPoolIDs

ParentIDs == PoolIDs \cup {"respool404"}

Policies == {"PriorityFIFO", "UNKNOWN"}

ResourcePoolConfig(parent, reservation, limit, share, policy) ==
    [parent |-> parent, reservation |-> reservation, limit |-> limit,
     share |-> share, policy |-> policy]

\* A pool of the tree: its children in the order they were linked, and its
\* configuration, which names the parent.
ResPool(children, config) == [children |-> children, config |-> config]

\* The root is implicit: no parent, no resources configured.
RootConfig ==
    ResourcePoolConfig("", ZeroResources, ZeroResources, 1, "PriorityFIFO")

EmptyTree == [id \in {RootResPoolID} |-> ResPool(<<>>, RootConfig)]

\* A gang: its enqueue stamp as id, its priority, the number of its tasks
\* and the demand of each of them.
Gang(id, priority, size, demand) ==
    [id |-> id, priority |-> priority, size |-> size, demand |-> demand]

\* The demand of all tasks of a gang together.
GangDemand(gang) == Scale(gang.demand, gang.size)

\* The result of an operation on the tree: its error, the pool it was about,
\* whether that pool was in the tree, the limit it was given and the gangs
\* it returned.
TreeRet(op, err, pool, found, limit, gangs) ==
    [op |-> op, err |-> err, pool |-> pool, found |-> found, limit |-> limit,
     gangs |-> gangs]

NoTreeRet == TreeRet("none", "nil", "", FALSE, 0, <<>>)

IdleTree ==
    /\ resPools = EmptyTree
    /\ pending = [id \in PoolIDs |-> <<>>]
    /\ entitlement = [id \in PoolIDs |-> ZeroResources]
    /\ allocation = [id \in PoolIDs |-> ZeroResources]
    /\ gangTasks = <<>>
    /\ nextGang = 1
    /\ capacity = ZeroResources
    /\ treeRet = NoTreeRet

\* The hosts whose offers the host manager pools.
Hosts == {"host1", "host2"}

\* The callers of AcquireHostOffers: one placement engine per task type.
Acquirers == {"batch", "stateless"}

\* Assignment.GetHost() == nil.
NoHost == "nil"

\* The offer pool: every offer is ready, none is placing.
ReadyPool == [ready |-> Hosts, placing |-> {}]

\* What an operation of the placement engine did: the offers its Acquire
\* returned and its reason, the assignments it handed to filterAssignments
\* and the three lists it got back.
EngineRet(op, offers, reason, input, lists) ==
    [op |-> op, offers |-> offers, reason |-> reason, input |-> input,
     lists |-> lists]

NoLists == [assigned |-> <<>>, retryable |-> <<>>, unassigned |-> <<>>]

NoEngineRet == EngineRet("none", {}, "", <<>>, NoLists)

IdleEngine ==
    /\ offerPool = ReadyPool
    /\ held = [a \in Acquirers |-> {}]
    /\ pendingTasks = {}
    /\ placementQueue = <<>>
    /\ assignments = <<>>
    /\ placements = {}
    /\ now = 0
    /\ engineRet = NoEngineRet

NoJobRet == [op |-> "none", err |-> "nil"]

IdleJob ==
    /\ jobRuntime = Nil
    /\ taskStore = <<>>
    /\ sentTasks = {}
    /\ goalStates = <<>>
    /\ hostKills = {}
    /\ jobRet = NoJobRet

NoHostRet == [op |-> "none"]

IdleLoops ==
    /\ hb = NoHostRet
    /\ dtracker = NoHostRet

IdleCleaner ==
    /\ reservedOffers = <<>>
    /\ volumeStore = <<>>
    /\ cleanerRet = NoHostRet

IdleExt ==
    /\ mesosCalls = <<>>
    /\ hostRet = NoHostRet
    /\ IdleLoops
    /\ IdleCleaner

NoProc == 0

IdleConc ==
    /\ mu = NoProc
    /\ pc = <<>>
    /\ loc = <<>>
    /\ lin = Nil

NoErr == [failed |-> FALSE, by |-> "none"]

ErrOf(comp) == [failed |-> TRUE, by |-> comp]

IdleServer ==
    /\ spc = "idle"
    /\ calls = <<>>
    /\ started = {}
    /\ srvRet = [cb |-> "none", err |-> NoErr]
    /\ tasks = <<>>
    /\ tracker = {}
    /\ queue = {}

InitTask ==
    /\ runtime = Nil
    /\ store \in InitRuntimes
    /\ ret = [op |-> "newTask", err |-> "nil", verdict |-> "none", wrote |-> FALSE,
              fromState |-> store.state]
    /\ taskConfig = [maxFailures |-> 0]
    /\ IdleConc
    /\ IdleServer
    /\ IdleTree
    /\ IdleEngine
    /\ IdleJob
    /\ IdleExt

PatchRuntime ==
    /\ \E diff \in TaskDiffs : DoPatch("PatchRuntime", diff, "none")
    /\ UNCHANGED <<taskConfig, concVars, srvVars, treeVars, engineVars, jobVars, extVars>>

PatchRuntimeStoreDown ==
    /\ \E diff \in StateDiffs : DoPatch("PatchRuntime", diff, "writeErr")
    /\ UNCHANGED <<taskConfig, concVars, srvVars, treeVars, engineVars, jobVars, extVars>>

PatchRuntimeFails ==
    /\ \E fault \in PatchFaults \ {"none", "writeErr"} :
          DoPatch("PatchRuntime", EmptyDiff, fault)
    /\ UNCHANGED <<taskConfig, concVars, srvVars, treeVars, engineVars, jobVars, extVars>>

NextTask == PatchRuntime \/ PatchRuntimeStoreDown \/ PatchRuntimeFails

SpecTask == InitTask /\ [][NextTask]_vars

----------------------------------------------------------------------------
(* Claims about the cached task, checked under SpecTask.                   *)

IsPatchStep == ret'.op = "PatchRuntime"

DeclaredGraph ==
    {<<"PENDING", "READY">>, <<"READY", "PLACING">>, <<"PLACING", "READY">>,
     <<"PLACING", "PLACED">>, <<"PLACED", "LAUNCHING">>, <<"LAUNCHING", "LAUNCHED">>,
     <<"LAUNCHED", "STARTING">>, <<"LAUNCHED", "RUNNING">>, <<"LAUNCHED", "FAILED">>,
     <<"LAUNCHED", "LOST">>, <<"RUNNING", "SUCCEEDED">>, <<"RUNNING", "FAILED">>,
     <<"RUNNING", "LOST">>, <<"RUNNING", "KILLING">>, <<"RUNNING", "PREEMPTING">>,
     <<"KILLING", "KILLED">>, <<"KILLING", "LOST">>, <<"FAILED", "PENDING">>,
     <<"LOST", "PENDING">>}

DeclaredSources == {e[1] : e \in DeclaredGraph}

\* C1 as stated: every change of the task's state made by PatchRuntime is an
\* edge of the declared transition graph. It is stated here for the changes
\* that leave a state the graph has edges from and keep the mesos task id.
C1_DeclaredGraphOnly ==
    [][(/\ IsPatchStep
        /\ CurrentRuntime.state \in DeclaredSources
        /\ CurrentRuntime'.mesosTaskId = CurrentRuntime.mesosTaskId
        /\ CurrentRuntime'.state # CurrentRuntime.state)
       => <<CurrentRuntime.state, CurrentRuntime'.state>> \in DeclaredGraph]_vars

C1_Allowed(old, new) ==
    IF new.mesosTaskId # NoID /\ new.mesosTaskId # old.mesosTaskId
    THEN new.state = "INITIALIZED"
    ELSE /\ ~IsPelotonStateTerminal(old.state)
         /\ CASE new.state \in mesosOwnedTaskStates ->
                    \/ old.state \in mesosOwnedTaskStates \cup resMgrOwnedTaskStates
                                     \cup {"INITIALIZED", "LAUNCHED"}
                    \/ /\ old.state = "KILLING"
                       /\ IsPelotonStateTerminal(new.state)
              [] new.state \in resMgrOwnedTaskStates \cup {"LAUNCHED"} ->
                    old.state \in resMgrOwnedTaskStates \cup {"INITIALIZED"}
              [] new.state = "KILLING" -> TRUE
              [] OTHER -> FALSE

\* C1 as amended: every change of the task's state made by PatchRuntime
\* follows the ownership rules: with a new mesos task id only to INITIALIZED;
\* otherwise only out of a non-terminal state, to a fabric state from a fabric
\* or resource manager state, INITIALIZED or LAUNCHED (to a terminal one from
\* KILLING too), to a resource manager state or LAUNCHED from a resource
\* manager state or INITIALIZED, and to KILLING from any non-terminal state.
C1_OwnershipRules ==
    [][(IsPatchStep /\ CurrentRuntime'.state # CurrentRuntime.state)
       => C1_Allowed(CurrentRuntime, CurrentRuntime')]_vars

\* An accepted change that is no edge of the declared graph: READY to PENDING.
C1_Witness ==
    /\ ret.op = "PatchRuntime"
    /\ ret.verdict = "accepted"
    /\ ret.err = "nil"
    /\ ret.fromState = "READY"
    /\ CurrentRuntime.state = "PENDING"

\* C2: a PatchRuntime whose patched runtime fails validation returns no error,
\* makes no UpdateTaskRuntime call, and leaves the store and the task's
\* runtime (state, mesos task id, revision and the rest) as they were.
C2_IllegalPatchIgnored ==
    [][(IsPatchStep /\ ret'.verdict = "rejected")
       => /\ ret'.err = "nil"
          /\ ~ret'.wrote
          /\ store' = store
          /\ CurrentRuntime' = CurrentRuntime]_vars

\* A rejected patch of a task with a revision: RUNNING was not left.
C2_Witness ==
    /\ ret.op = "PatchRuntime"
    /\ ret.verdict = "rejected"
    /\ ~runtime.isNil
    /\ runtime.state = "RUNNING"
    /\ runtime.revision = 1

\* C3: once the task's state is terminal, a PatchRuntime changes it only
\* together with the mesos task id, and then only to INITIALIZED.
C3_TerminalLeftOnlyByNewRun ==
    [][(/\ IsPatchStep
        /\ IsPelotonStateTerminal(CurrentRuntime.state)
        /\ CurrentRuntime'.state # CurrentRuntime.state)
       => /\ CurrentRuntime'.mesosTaskId # CurrentRuntime.mesosTaskId
          /\ CurrentRuntime'.state = "INITIALIZED"]_vars

\* A terminal task was patched to a new run: FAILED to INITIALIZED, run 2.
C3_Witness ==
    /\ ret.op = "PatchRuntime"
    /\ ret.verdict = "accepted"
    /\ ret.err = "nil"
    /\ ret.fromState = "FAILED"
    /\ CurrentRuntime.state = "INITIALIZED"
    /\ CurrentRuntime.mesosTaskId = RunID(2)

RunNotLower(old, new) ==
    (old.fmt = "run" /\ new.fmt = "run") => new.run >= old.run

\* C9: over any sequence of PatchRuntime calls neither the run id of the
\* mesos task id nor the run id of the desired mesos task id decreases.
C9_RunIDNeverDecreases ==
    [][IsPatchStep
       => /\ RunNotLower(CurrentRuntime.mesosTaskId, CurrentRuntime'.mesosTaskId)
          /\ RunNotLower(CurrentRuntime.desiredMesosTaskId,
                         CurrentRuntime'.desiredMesosTaskId)]_vars

----------------------------------------------------------------------------
(* The resource manager's Server: the leadership callbacks. A callback     *)
(* holds the Server's mutex from entry to return, so its Start (Stop)      *)
(* calls are the only steps of the Server while it runs; each call is one  *)
(* step here, so that the order of the calls and the state each call finds *)
(* can be observed.                                                         *)

NumTasks == 2

\* The components in the order GainedLeadershipCallback starts them.
GainedOrderSchedulerFirst == <<"respool", "scheduler", "recovery", "calculator">>

GainedOrder == <<"respool", "recovery", "scheduler", "calculator">>

\* The components in the order LostLeadershipCallback stops them.
LostOrder == <<"respool", "recovery", "scheduler", "calculator">>

Components == {GainedOrder[i] : i \in 1..Len(GainedOrder)}

\* The task states the store holds when leadership is gained.
StoredTaskStates == {"INITIALIZED", "PENDING", "RUNNING", "LAUNCHED", "SUCCEEDED"}

StoredTasks == [1..NumTasks -> StoredTaskStates]

\* Recovery gives a tracker entry to every PENDING, RUNNING and LAUNCHED task.
recoveredTracker(ts) == {t \in DOMAIN ts : ts[t] \in {"PENDING", "RUNNING", "LAUNCHED"}}

\* Recovery puts the PENDING tasks back into the pending queue.
recoveredQueue(ts) == {t \in DOMAIN ts : ts[t] = "PENDING"}

\* recoveryHandler.Start: the scan of the stored tasks, done when it returns.
recoveryStart(ts) == [tracker |-> recoveredTracker(ts), queue |-> recoveredQueue(ts)]

\* afterStart that goes on to the next component whatever Start returned.
afterStartIgnoringErr(n, err) ==
    IF n = Len(GainedOrder) THEN "return" ELSE "continue"

\* What GainedLeadershipCallback does after its n-th Start call returned err.
afterStart(n, err) ==
    IF err.failed THEN "return"
    ELSE IF n = Len(GainedOrder) THEN "return" ELSE "continue"

\* What LostLeadershipCallback does after its n-th Stop call returned err.
afterStop(n, err) ==
    IF err.failed THEN "return"
    ELSE IF n = Len(LostOrder) THEN "return" ELSE "continue"

Call(op, comp, err) == [op |-> op, comp |-> comp, err |-> err]

InitServer ==
    /\ spc = "idle"
    /\ calls = <<>>
    /\ started = {}
    /\ srvRet = [cb |-> "none", err |-> NoErr]
    /\ tasks \in StoredTasks
    /\ tracker = {}
    /\ queue = {}
    /\ runtime = Nil
    /\ store = Nil
    /\ ret = [op |-> "none"]
    /\ taskConfig = [maxFailures |-> 0]
    /\ IdleConc
    /\ IdleTree
    /\ IdleEngine
    /\ IdleJob
    /\ IdleExt

GainedLeadershipCallback ==
    /\ spc = "idle"
    /\ spc' = "gaining"
    /\ calls' = <<>>
    /\ UNCHANGED <<started, srvRet, tasks, tracker, queue, taskVars, concVars, treeVars, engineVars, jobVars, extVars>>

StartComponent ==
    /\ spc = "gaining"
    /\ \E comp \in {GainedOrder[Len(calls) + 1]} :
       \E err \in {NoErr, ErrOf(comp)} :
       \E next \in {afterStart(Len(calls) + 1, err)} :
          /\ calls' = Append(calls, Call("Start", comp, err))
          /\ started' = IF err.failed THEN started ELSE started \cup {comp}
          /\ tracker' = IF comp = "recovery" /\ ~err.failed
                        THEN recoveryStart(tasks).tracker ELSE tracker
          /\ queue' = IF comp = "recovery" /\ ~err.failed
                      THEN recoveryStart(tasks).queue ELSE queue
          /\ spc' = IF next = "return" THEN "idle" ELSE "gaining"
          /\ srvRet' = IF next = "return" THEN [cb |-> "Gained", err |-> err]
                       ELSE srvRet
    /\ UNCHANGED <<tasks, taskVars, concVars, treeVars, engineVars, jobVars, extVars>>

LostLeadershipCallback ==
    /\ spc = "idle"
    /\ spc' = "losing"
    /\ calls' = <<>>
    /\ UNCHANGED <<started, srvRet, tasks, tracker, queue, taskVars, concVars, treeVars, engineVars, jobVars, extVars>>

StopComponent ==
    /\ spc = "losing"
    /\ \E comp \in {LostOrder[Len(calls) + 1]} :
       \E err \in {NoErr, ErrOf(comp)} :
       \E next \in {afterStop(Len(calls) + 1, err)} :
          /\ calls' = Append(calls, Call("Stop", comp, err))
          /\ started' = IF err.failed THEN started ELSE started \ {comp}
          /\ spc' = IF next = "return" THEN "idle" ELSE "losing"
          /\ srvRet' = IF next = "return" THEN [cb |-> "Lost", err |-> err]
                       ELSE srvRet
    /\ UNCHANGED <<tasks, tracker, queue, taskVars, concVars, treeVars, engineVars, jobVars, extVars>>

NextServer ==
    \/ GainedLeadershipCallback
    \/ StartComponent
    \/ LostLeadershipCallback
    \/ StopComponent

SpecServer == InitServer /\ [][NextServer]_vars

CallsOf(op) == {calls[i].comp : i \in {j \in 1..Len(calls) : calls[j].op = op}}

IsCallStep(op, comps) ==
    /\ Len(calls') = Len(calls) + 1
    /\ calls'[Len(calls')].op = op
    /\ calls'[Len(calls')].comp \in comps

C5_AllStoppedOnLoss ==
    (spc = "idle" /\ srvRet.cb = "Lost") => CallsOf("Stop") = Components

\* C6: LostLeadershipCallback stops the components in the reverse of the
\* order in which GainedLeadershipCallback starts them: its n-th Stop call
\* is on the component started n-th from last.
C6_StopsInReverseOrder ==
    \A n \in 1..Len(calls) :
        calls[n].op = "Stop" => calls[n].comp = GainedOrder[Len(GainedOrder) + 1 - n]

\* C7: GainedLeadershipCallback calls Start on no component after a Start
\* call that returned an error, and returns that error: when the recovery
\* handler's Start failed, its error is returned and neither the task
\* scheduler nor the entitlement calculator has been started.
C7_NoStartAfterFailedStart ==
    /\ \A i \in 1..Len(calls) :
           (calls[i].op = "Start" /\ calls[i].err.failed)
           => /\ i = Len(calls)
              /\ spc = "idle"
              /\ srvRet = [cb |-> "Gained", err |-> calls[i].err]
    /\ (\E i \in 1..Len(calls) : calls[i] = Call("Start", "recovery", ErrOf("recovery")))
       => /\ srvRet.err = ErrOf("recovery")
          /\ CallsOf("Start") \cap {"scheduler", "calculator"} = {}

\* The recovery handler failed to start and the callback returned its error.
C7_Witness ==
    /\ spc = "idle"
    /\ srvRet = [cb |-> "Gained", err |-> ErrOf("recovery")]
    /\ calls = <<Call("Start", "respool", NoErr),
                 Call("Start", "recovery", ErrOf("recovery"))>>

----------------------------------------------------------------------------
(* Concurrent PatchRuntime calls on one task: each caller goes through the *)
(* steps of PatchRuntime one at a time, the task's mutex ordering them.    *)
(* lin holds what the same diffs give when the calls run one after the     *)
(* other, in the order in which they took the mutex.                       *)

Procs == {1, 2}

ConcDiffs == StateDiffs

\* t.Lock() that does not wait for the holder.
lockFreeAlways(m) == TRUE

\* t.Lock() returns once no caller holds the mutex.
lockFree(m) == m = NoProc

Locals(diff, new) == [diff |-> diff, new |-> new]

InFlight == Cardinality({p \in Procs : pc[p] # "idle"})

InitConc ==
    /\ runtime = Nil
    /\ store \in InitRuntimes
    /\ ret = [op |-> "newTask", err |-> "nil", verdict |-> "none", wrote |-> FALSE,
              fromState |-> store.state]
    /\ taskConfig = [maxFailures |-> 0]
    /\ mu = NoProc
    /\ pc = [p \in Procs |-> "idle"]
    /\ loc = [p \in Procs |-> Locals(EmptyDiff, Nil)]
    /\ lin = [runtime |-> Nil, store |-> store]
    /\ IdleServer
    /\ IdleTree
    /\ IdleEngine
    /\ IdleJob
    /\ IdleExt

\* PatchRuntime up to and with t.Lock(): the checks of the diff and GetConfig
\* pass, and the caller takes the mutex.
BeginPatch(p) ==
    /\ pc[p] = "idle"
    /\ CurrentRuntime.revision + InFlight < MaxVersion
    /\ lockFree(mu)
    /\ mu' = p
    /\ pc' = [pc EXCEPT ![p] = "load"]
    /\ \E diff \in ConcDiffs :
       \E out \in {patchRuntime(lin.runtime, lin.store, diff, "none")} :
          /\ loc' = [loc EXCEPT ![p] = Locals(diff, Nil)]
          /\ lin' = [runtime |-> out.runtime, store |-> out.store]
    /\ UNCHANGED <<runtime, store, ret, taskConfig, srvVars, treeVars, engineVars, jobVars, extVars>>

\* The cache is reloaded when empty, then copied and patched.
LoadAndPatch(p) ==
    /\ pc[p] = "load"
    /\ runtime' = Effective(runtime, store)
    /\ loc' = [loc EXCEPT ![p] = Locals(loc[p].diff, patch(runtime', loc[p].diff))]
    /\ pc' = [pc EXCEPT ![p] = "validate"]
    /\ UNCHANGED <<store, ret, taskConfig, mu, lin, srvVars, treeVars, engineVars, jobVars, extVars>>

Validate(p) ==
    /\ pc[p] = "validate"
    /\ pc' = [pc EXCEPT ![p] = IF validateState(runtime, loc[p].new)
                               THEN "write" ELSE "unlock"]
    /\ UNCHANGED <<runtime, store, ret, taskConfig, mu, loc, lin, srvVars, treeVars, engineVars, jobVars, extVars>>

\* updateRevision, UpdateTaskRuntime and the update of the cache.
Write(p) ==
    /\ pc[p] = "write"
    /\ \E bumped \in {updateRevision(runtime, loc[p].new)} :
          /\ store' = bumped.copy
          /\ runtime' = bumped.copy
    /\ pc' = [pc EXCEPT ![p] = "unlock"]
    /\ UNCHANGED <<ret, taskConfig, mu, loc, lin, srvVars, treeVars, engineVars, jobVars, extVars>>

Unlock(p) ==
    /\ pc[p] = "unlock"
    /\ mu' = NoProc
    /\ pc' = [pc EXCEPT ![p] = "idle"]
    /\ loc' = [loc EXCEPT ![p] = Locals(EmptyDiff, Nil)]
    /\ UNCHANGED <<runtime, store, ret, taskConfig, lin, srvVars, treeVars, engineVars, jobVars, extVars>>

NextConc ==
    \E p \in Procs :
        \/ BeginPatch(p)
        \/ LoadAndPatch(p)
        \/ Validate(p)
        \/ Write(p)
        \/ Unlock(p)

SpecConc == InitConc /\ [][NextConc]_vars

\* C8: concurrent PatchRuntime calls on one task are linearisable: whenever
\* no call is between taking and releasing the mutex, the cached runtime and
\* the stored runtime are the ones that result from running the calls' diffs
\* one after the other, in the order in which the calls took the mutex.
C8_Linearisable ==
    (\A p \in Procs : pc[p] = "idle")
    => (runtime = lin.runtime /\ store = lin.store)

\* Both callers have patched the task: two accepted diffs, one after the other.
C8_Witness ==
    /\ \A p \in Procs : pc[p] = "idle"
    /\ ~runtime.isNil
    /\ runtime.revision = 2
    /\ runtime.state = "RUNNING"
    /\ runtime = lin.runtime

----------------------------------------------------------------------------
(* The goal state action TaskFailRetry on a cached task: status updates    *)
(* and state changes bring the task to FAILED or LOST, and the action       *)
(* starts a new run when the restart policy or the failure's reason says so.*)

MaxFailuresValues == {0, 1}

\* A failure of the system, not of the task: the container was not launched,
\* or the executor failed with the message of a broken pipe.
isSystemFailure(rt) ==
    \/ rt.reason = "REASON_CONTAINER_LAUNCH_FAILED"
    \/ /\ rt.reason = "REASON_COMMAND_EXECUTOR_FAILED"
       /\ rt.message = "Container terminated with signal Broken pipe"

\* A retry decided without the restart policy.
shouldRetryAlways(rt, maxFailures) == TRUE

\* The failure counts of the runtimes are zero: a task failure is retried
\* when the restart policy allows one, a system failure in any case.
shouldRetry(rt, maxFailures) == isSystemFailure(rt) \/ 0 < maxFailures

\* The diff of a retry: a new mesos task id with the next run id, the failed
\* one kept as the previous mesos task id, the state INITIALIZED.
retryDiff(rt) ==
    RuntimeDiff(Present("INITIALIZED"), Present(RunID(rt.mesosTaskId.run + 1)),
                Present(rt.mesosTaskId), Absent(NoID), Absent(""), Absent(""))

\* The reason and the message a status update of the fabric comes with.
StatusReports ==
    {<<"", "">>,
     <<"REASON_COMMAND_EXECUTOR_FAILED", "testFailure">>,
     <<"REASON_AGENT_REMOVED", "Agent peloton-mesos-agent0 removed">>,
     <<"REASON_CONTAINER_LAUNCH_FAILED", "testFailure">>,
     <<"REASON_COMMAND_EXECUTOR_FAILED",
       "Container terminated with signal Broken pipe">>}

\* The status updates of the fabric: a fabric state, the reason and the
\* message given.
ReasonDiffs ==
    {RuntimeDiff(Present(s), Absent(NoID), Absent(NoID), Absent(NoID),
                 Present(rep[1]), Present(rep[2])) :
        s \in mesosOwnedTaskStates, rep \in StatusReports}

InitRetry ==
    /\ runtime = Nil
    /\ store \in {RuntimeInfo("INITIALIZED", RunID(1), NoID, NoID, "", "", r) :
                    r \in {NoRevision, 0}}
    /\ ret = [op |-> "newTask", err |-> "nil", verdict |-> "none", wrote |-> FALSE,
              fromState |-> store.state]
    /\ taskConfig \in {[maxFailures |-> m] : m \in MaxFailuresValues}
    /\ IdleConc
    /\ IdleServer
    /\ IdleTree
    /\ IdleEngine
    /\ IdleJob
    /\ IdleExt

StatusUpdate ==
    /\ \E diff \in ReasonDiffs : DoPatch("PatchRuntime", diff, "none")
    /\ UNCHANGED <<taskConfig, concVars, srvVars, treeVars, engineVars, jobVars, extVars>>

StateChange ==
    /\ \E diff \in StateDiffs : DoPatch("PatchRuntime", diff, "none")
    /\ UNCHANGED <<taskConfig, concVars, srvVars, treeVars, engineVars, jobVars, extVars>>

\* GetRunTime, GetTaskConfig, and PatchTasks with the retry's diff when the
\* task is to be retried.
TaskFailRetry ==
    /\ CurrentRuntime.state \in {"FAILED", "LOST"}
    /\ CurrentRuntime.mesosTaskId.fmt = "run"
    /\ CurrentRuntime.mesosTaskId.run < MaxRunID
    /\ IF shouldRetry(CurrentRuntime, taskConfig.maxFailures)
       THEN \E fault \in {"none", "writeErr"} :
                DoPatch("TaskFailRetry", retryDiff(CurrentRuntime), fault)
       ELSE /\ runtime' = CurrentRuntime
            /\ store' = store
            /\ ret' = [op |-> "TaskFailRetry", err |-> "nil", verdict |-> "none",
                       wrote |-> FALSE, fromState |-> CurrentRuntime.state]
    /\ UNCHANGED <<taskConfig, concVars, srvVars, treeVars, engineVars, jobVars, extVars>>

NextRetry == StatusUpdate \/ StateChange \/ TaskFailRetry

SpecRetry == InitRetry /\ [][NextRetry]_vars

IsSystemFailureRetry ==
    /\ ret'.op = "TaskFailRetry"
    /\ ret'.err = "nil"
    /\ CurrentRuntime.state = "FAILED"
    /\ CurrentRuntime.reason = "REASON_CONTAINER_LAUNCH_FAILED"
    /\ taskConfig.maxFailures = 0

IsTaskFailRetryStep == ret'.op = "TaskFailRetry"

----------------------------------------------------------------------------
(* The resource pool tree: Upsert, Delete and EnqueueGang.                 *)

\* The enqueue stamps of the gangs of one behaviour.
GangIDs == {1, 2}

Range(seq) == {seq[i] : i \in DOMAIN seq}

RECURSIVE SumOf(_, _)
\* The sum of the reservations of a set of pools.
SumOf(tree, ids) ==
    IF ids = {} THEN ZeroResources
    ELSE LET id == CHOOSE x \in ids : TRUE
         IN  Add(tree[id].config.reservation, SumOf(tree, ids \ {id}))

RECURSIVE Descendants(_, _)
Descendants(tree, id) ==
    LET kids == Range(tree[id].children)
    IN  kids \cup UNION {Descendants(tree, kid) : kid \in kids}

\* A pool that passes for a leaf whatever children it has.
isLeafAlways(tree, id) == TRUE

isLeaf(tree, id) == tree[id].children = <<>>

\* The children of a pool without one of them, in their order.
unlink(children, id) == SelectSeq(children, LAMBDA kid : kid # id)

\* The tree with the pool linked under the parent, whether or not it already
\* is.
linkToAgain(tree, id, parent) ==
    IF parent \notin DOMAIN tree THEN tree
    ELSE [tree EXCEPT ![parent].children = Append(@, id)]

\* The tree with the pool linked under the parent its configuration names:
\* a link it already has is kept, a link to another parent is moved.
linkTo(tree, id, parent) ==
    IF parent \notin DOMAIN tree THEN tree
    ELSE IF id \in Range(tree[parent].children) THEN tree
    ELSE [other \in DOMAIN tree |->
            IF other = parent
            THEN [tree[other] EXCEPT !.children = Append(@, id)]
            ELSE [tree[other] EXCEPT !.children = unlink(@, id)]]

\* The validation of Upsert: the error of the first rule the pool with this
\* configuration would break in the tree, or "nil".
validateConfig(tree, id, config) ==
    LET parent   == config.parent
        siblings == Range(tree[parent].children) \ {id}
        kids     == IF id \in DOMAIN tree THEN Range(tree[id].children) ELSE {}
    IN  IF id = RootResPoolID THEN "INVALID_HIERARCHY"
        ELSE IF parent \notin DOMAIN tree THEN "PARENT_NOT_FOUND"
        ELSE IF parent = id THEN "INVALID_HIERARCHY"
        ELSE IF id \in DOMAIN tree /\ parent \in Descendants(tree, id)
        THEN "INVALID_HIERARCHY"
        ELSE IF config.policy # "PriorityFIFO" THEN "Invalid queue Type"
        ELSE IF ~LessThanOrEqual(config.reservation, config.limit)
        THEN "RESERVATION_EXCEEDS_LIMIT"
        ELSE IF /\ parent # RootResPoolID
                /\ ~LessThanOrEqual(Add(SumOf(tree, siblings), config.reservation),
                                    tree[parent].config.reservation)
        THEN "RESERVATION_EXCEEDS_PARENT"
        ELSE IF ~LessThanOrEqual(SumOf(tree, kids), config.reservation)
        THEN "RESERVATION_EXCEEDS_PARENT"
        ELSE "nil"

\* The tree with the pool inserted, or updated when it is there, and linked
\* under its parent.
upserted(tree, id, config) ==
    LET kids == IF id \in DOMAIN tree THEN tree[id].children ELSE <<>>
        with == [other \in DOMAIN tree \cup {id} |->
                   IF other = id THEN ResPool(kids, config) ELSE tree[other]]
    IN  linkTo(with, id, config.parent)

\* What Upsert leaves whatever the validation said.
commitAlways(tree, new, err) == new

\* What Upsert leaves: the new tree when the validation passed, and the tree
\* of before otherwise.
commit(tree, new, err) == IF err = "nil" THEN new ELSE tree

upsert(tree, id, config) ==
    LET err == validateConfig(tree, id, config)
    IN  [err |-> err, tree |-> commit(tree, upserted(tree, id, config), err)]

\* Delete's error: the pool must be there, not the root, without children
\* and without tasks.
deleteError(tree, queues, id) ==
    IF id \notin DOMAIN tree THEN "NOT_FOUND"
    ELSE IF id = RootResPoolID THEN "INVALID_HIERARCHY"
    ELSE IF ~isLeaf(tree, id) THEN "HAS_CHILDREN"
    ELSE IF queues[id] # <<>> THEN "HAS_TASKS"
    ELSE "nil"

deleted(tree, id) ==
    [other \in DOMAIN tree \ {id} |->
        [tree[other] EXCEPT !.children = unlink(@, id)]]

\* EnqueueGang's error: the pool must be there and a leaf.
enqueueError(tree, id) ==
    IF id \notin DOMAIN tree THEN "NOT_FOUND"
    ELSE IF ~isLeaf(tree, id) THEN "NOT_A_LEAF"
    ELSE "nil"

\* Priority-FIFO: the gang goes behind the gangs of its priority or a higher
\* one and before the gangs of a lower one.
enqueued(q, gang) ==
    LET ahead == SelectSeq(q, LAMBDA g : g.priority >= gang.priority)
        behind == SelectSeq(q, LAMBDA g : g.priority < gang.priority)
    IN  ahead \o <<gang>> \o behind

\* The configurations Upsert is called with: a small and a large
\* reservation under a limit, a reservation above its limit, and a policy
\* that is none.
TreeConfigs ==
    {ResourcePoolConfig(parent, Resources(1, 1), Resources(2, 2), 1, "PriorityFIFO") :
        parent \in ParentIDs}
    \cup {ResourcePoolConfig(parent, Resources(2, 1), Resources(2, 2), 1,
                             "PriorityFIFO") : parent \in ParentIDs}
    \cup {ResourcePoolConfig(parent, Resources(2, 1), Resources(1, 1), 1,
                             "PriorityFIFO") : parent \in ParentIDs}
    \cup {ResourcePoolConfig(parent, Resources(1, 1), Resources(2, 2), 1, "UNKNOWN") :
            parent \in ParentIDs}

\* The gangs enqueued on the tree: one task of one cpu and one memory.
TreeGangs == {Gang(0, 0, 1, Resources(1, 1))}

\* The enqueue stamps of the gangs enqueued on the tree.
TreeGangIDs == {1}

InitTree ==
    /\ IdleTree
    /\ runtime = Nil
    /\ store = Nil
    /\ ret = [op |-> "none"]
    /\ taskConfig = [maxFailures |-> 0]
    /\ IdleConc
    /\ IdleServer
    /\ IdleEngine
    /\ IdleJob
    /\ IdleExt

Upsert ==
    /\ \E id \in ChildPoolIDs, config \in TreeConfigs :
         \E out \in {upsert(resPools, id, config)} :
            /\ resPools' = out.tree
            /\ treeRet' = TreeRet("Upsert", out.err, id, id \in DOMAIN resPools, 0,
                                  <<>>)
    /\ UNCHANGED <<pending, entitlement, allocation, gangTasks, nextGang, capacity>>
    /\ UNCHANGED <<taskVars, concVars, srvVars, engineVars, jobVars, extVars>>

Delete ==
    /\ \E id \in PoolIDs \cup {"respool404"} :
         \E err \in {deleteError(resPools, pending, id)} :
            /\ resPools' = IF err = "nil" THEN deleted(resPools, id) ELSE resPools
            /\ treeRet' = TreeRet("Delete", err, id, id \in DOMAIN resPools, 0, <<>>)
    /\ UNCHANGED <<pending, entitlement, allocation, gangTasks, nextGang, capacity>>
    /\ UNCHANGED <<taskVars, concVars, srvVars, engineVars, jobVars, extVars>>

\* The tasks of a gang in the tracker: the pool and the gang they came
\* with, and the state of each.
TrackedGang(pool, gang, state) ==
    [pool |-> pool, gang |-> gang, states |-> [t \in 1..gang.size |-> state]]

\* EnqueueGang of a gang on a pool: the gang gets the next enqueue stamp and
\* its tasks are PENDING.
EnqueueGangOf(gangs, ids, stamps) ==
    /\ nextGang \in stamps
    /\ \E id \in ids, shape \in gangs :
         \E err \in {enqueueError(resPools, id)} :
            LET gang == [shape EXCEPT !.id = nextGang]
            IN  /\ treeRet' = TreeRet("EnqueueGang", err, id, id \in DOMAIN resPools,
                                      0, <<>>)
                /\ IF err = "nil"
                   THEN /\ pending' = [pending EXCEPT ![id] = enqueued(@, gang)]
                        /\ gangTasks' =
                               Append(gangTasks, TrackedGang(id, gang, "PENDING"))
                        /\ nextGang' = nextGang + 1
                   ELSE UNCHANGED <<pending, gangTasks, nextGang>>

EnqueueGang ==
    /\ EnqueueGangOf(TreeGangs, ChildPoolIDs, TreeGangIDs)
    /\ UNCHANGED <<resPools, entitlement, allocation, capacity>>
    /\ UNCHANGED <<taskVars, concVars, srvVars, engineVars, jobVars, extVars>>

NextTree == Upsert \/ Delete \/ EnqueueGang

SpecTree == InitTree /\ [][NextTree]_vars

\* C12: after any sequence of Upsert, Delete and EnqueueGang, every pool of
\* the tree that holds a gang in its pending queue is a leaf: it has no
\* children.
C12_TasksOnlyInLeaves ==
    \A id \in DOMAIN resPools : pending[id] # <<>> => resPools[id].children = <<>>

IsEnqueueOnNonLeaf ==
    /\ treeRet'.op = "EnqueueGang"
    /\ treeRet'.pool \in DOMAIN resPools
    /\ resPools[treeRet'.pool].children # <<>>

\* C13: EnqueueGang on a pool that has children fails with the error of a
\* pool that is not a leaf, and leaves the tree, the queues of all pools,
\* the entitlements, the allocations and the tasks as they were.
C13_EnqueueOnNonLeafFails ==
    [][IsEnqueueOnNonLeaf
       => /\ treeRet'.err = "NOT_A_LEAF"
          /\ UNCHANGED <<resPools, pending, entitlement, allocation, gangTasks,
                         nextGang>>]_vars

\* EnqueueGang was refused on respool1, the parent of respool11.
C13_Witness ==
    /\ treeRet.op = "EnqueueGang"
    /\ treeRet.err = "NOT_A_LEAF"
    /\ treeRet.pool = "respool1"
    /\ "respool11" \in Range(resPools["respool1"].children)

\* C17: when Upsert returns an error, the pools of the tree, the links
\* between parents and children and the configurations are those of before
\* the call, and so are the queues.
C17_FailedUpsertChangesNothing ==
    [][(treeRet'.op = "Upsert" /\ treeRet'.err # "nil")
       => UNCHANGED <<resPools, pending, entitlement, allocation, gangTasks>>]_vars

\* Upsert refused an existing pool with children a reservation the parent
\* of the pool has not got.
C17_Witness ==
    /\ treeRet.op = "Upsert"
    /\ treeRet.err = "RESERVATION_EXCEEDS_PARENT"
    /\ treeRet.found
    /\ resPools[treeRet.pool].children # <<>>
    /\ resPools[treeRet.pool].config.parent # RootResPoolID

\* C18: Upsert is idempotent: from every tree and for every pool id and
\* configuration, be the pool new or in the tree, a second Upsert with the
\* same id and configuration leaves the tree the first one left.
C18_UpsertIdempotent ==
    \A id \in ChildPoolIDs, config \in TreeConfigs :
        LET once == upsert(resPools, id, config)
            twice == upsert(once.tree, id, config)
        IN  /\ twice.tree = once.tree
            /\ twice.err = once.err

\* Upsert has updated a pool that was in the tree and has a child, and the
\* tree has a pool that an Upsert would add.
C18_Witness ==
    /\ treeRet.op = "Upsert"
    /\ treeRet.err = "nil"
    /\ treeRet.found
    /\ resPools[treeRet.pool].children # <<>>
    /\ DOMAIN resPools # PoolIDs

----------------------------------------------------------------------------
(* The pending queue of a leaf pool: EnqueueGang, SetEntitlement,          *)
(* DequeueGangs and the allocation of the gangs that run.                  *)

\* The tree of the queue's pools: respool1 with the leaf respool11.
QueueTree ==
    upsert(upsert(EmptyTree, "respool1",
                  ResourcePoolConfig(RootResPoolID, Resources(2, 2), Resources(4, 4), 1,
                                     "PriorityFIFO")).tree,
           "respool11",
           ResourcePoolConfig("respool1", Resources(1, 1), Resources(4, 4), 1,
                              "PriorityFIFO")).tree

QueuePoolIDs == {"respool1", "respool11"}

QueueGangIDs == {1, 2, 3}

\* The gangs enqueued: of priority 0 or 1, of one or two tasks, each task of
\* one cpu and one or two of memory.
QueueGangs ==
    {Gang(0, priority, size, demand) :
        priority \in {0, 1}, size \in {1, 2},
        demand \in {Resources(1, 1), Resources(1, 2)}}

QueueEntitlements == {Resources(1, 1), Resources(2, 2), Resources(4, 2)}

DequeueLimits == {1, 2}

\* A gang fits when one of its tasks does.
fitsOneTask(gang, headroom) == LessThanOrEqual(gang.demand, headroom)

\* A gang fits when the demand of all its tasks together is within the
\* headroom in every kind.
fits(gang, headroom) == LessThanOrEqual(GangDemand(gang), headroom)

\* A gang passed over is dropped from the queue.
skippedDropped(gang, left) == left

\* A gang passed over stays in the queue, before the gangs behind it.
skipped(gang, left) == <<gang>> \o left

RECURSIVE dequeue(_, _, _)
\* The scan of a queue from its head: a gang that fits the headroom left, as
\* long as the limit is not reached, is returned and its demand taken off
\* the headroom; any other gang is skipped and stays.
dequeue(q, headroom, limit) ==
    IF q = <<>> THEN [gangs |-> <<>>, left |-> <<>>]
    ELSE IF limit > 0 /\ fits(Head(q), headroom)
    THEN LET rest == dequeue(Tail(q), Subtract(headroom, GangDemand(Head(q))),
                             limit - 1)
         IN  [gangs |-> <<Head(q)>> \o rest.gangs, left |-> rest.left]
    ELSE LET rest == dequeue(Tail(q), headroom, limit)
         IN  [gangs |-> rest.gangs, left |-> skipped(Head(q), rest.left)]

\* The headroom of a pool: its entitlement minus its allocation.
Headroom(id) == Subtract(entitlement[id], allocation[id])

InitQueue ==
    /\ resPools = QueueTree
    /\ pending = [id \in PoolIDs |-> <<>>]
    /\ entitlement = [id \in PoolIDs |-> ZeroResources]
    /\ allocation = [id \in PoolIDs |-> ZeroResources]
    /\ gangTasks = <<>>
    /\ nextGang = 1
    /\ capacity = ZeroResources
    /\ treeRet = NoTreeRet
    /\ runtime = Nil
    /\ store = Nil
    /\ ret = [op |-> "none"]
    /\ taskConfig = [maxFailures |-> 0]
    /\ IdleConc
    /\ IdleServer
    /\ IdleEngine
    /\ IdleJob
    /\ IdleExt

EnqueueGangs ==
    /\ EnqueueGangOf(QueueGangs, QueuePoolIDs, QueueGangIDs)
    /\ UNCHANGED <<resPools, entitlement, allocation, capacity>>
    /\ UNCHANGED <<taskVars, concVars, srvVars, engineVars, jobVars, extVars>>

SetEntitlement ==
    /\ \E id \in {"respool11"}, res \in QueueEntitlements :
         /\ entitlement' = [entitlement EXCEPT ![id] = res]
         /\ treeRet' = TreeRet("SetEntitlement", "nil", id, TRUE, 0, <<>>)
    /\ UNCHANGED <<resPools, pending, allocation, gangTasks, nextGang, capacity>>
    /\ UNCHANGED <<taskVars, concVars, srvVars, engineVars, jobVars, extVars>>

\* DequeueGangs(limit) on a pool: the gangs returned leave the queue and
\* their tasks go from PENDING to READY.
DequeueGangs ==
    /\ \E id \in QueuePoolIDs, limit \in DequeueLimits :
         IF ~isLeaf(resPools, id)
         THEN /\ treeRet' = TreeRet("DequeueGangs", "NOT_A_LEAF", id, TRUE, limit, <<>>)
              /\ UNCHANGED <<pending, gangTasks>>
         ELSE \E out \in {dequeue(pending[id], Headroom(id), limit)} :
                /\ pending' = [pending EXCEPT ![id] = out.left]
                /\ gangTasks' =
                      [g \in DOMAIN gangTasks |->
                         IF gangTasks[g].gang \in Range(out.gangs)
                         THEN TrackedGang(id, gangTasks[g].gang, "READY")
                         ELSE gangTasks[g]]
                /\ treeRet' = TreeRet("DequeueGangs", "nil", id, TRUE, limit, out.gangs)
    /\ UNCHANGED <<resPools, entitlement, allocation, nextGang, capacity>>
    /\ UNCHANGED <<taskVars, concVars, srvVars, engineVars, jobVars, extVars>>

\* The tasks of a gang that is READY run: their demand is added to the
\* allocation of their pool.
AddAllocation ==
    /\ \E g \in DOMAIN gangTasks :
         /\ \A t \in DOMAIN gangTasks[g].states : gangTasks[g].states[t] = "READY"
         /\ gangTasks' =
               [gangTasks EXCEPT ![g] = TrackedGang(@.pool, @.gang, "RUNNING")]
         /\ allocation' =
               [allocation EXCEPT
                  ![gangTasks[g].pool] = Add(@, GangDemand(gangTasks[g].gang))]
         /\ treeRet' = TreeRet("AddAllocation", "nil", gangTasks[g].pool, TRUE, 0, <<>>)
    /\ UNCHANGED <<resPools, pending, entitlement, nextGang, capacity>>
    /\ UNCHANGED <<taskVars, concVars, srvVars, engineVars, jobVars, extVars>>

NextQueue == EnqueueGangs \/ SetEntitlement \/ DequeueGangs \/ AddAllocation

SpecQueue == InitQueue /\ [][NextQueue]_vars

IsDequeueStep == treeRet'.op = "DequeueGangs" /\ treeRet'.err = "nil"

\* C14: within one leaf pool, of two gangs of equal priority the one
\* enqueued first is dequeued no later than the other: a DequeueGangs that
\* returns the later one returns the earlier one as well, and before it.
C14_PriorityFIFO ==
    [][IsDequeueStep
       => LET q == pending[treeRet'.pool]
              out == treeRet'.gangs
          IN  \A i, j \in DOMAIN q :
                 (/\ q[i].id < q[j].id
                  /\ q[i].priority = q[j].priority
                  /\ q[j] \in Range(out))
                 => \E m, n \in DOMAIN out :
                        m < n /\ out[m] = q[i] /\ out[n] = q[j]]_vars

RECURSIVE SumDemand(_)
SumDemand(gangs) ==
    IF gangs = <<>> THEN ZeroResources
    ELSE Add(GangDemand(Head(gangs)), SumDemand(Tail(gangs)))

\* C15: DequeueGangs(limit) on a leaf returns at most limit gangs, all from
\* the queue; the demand of the gangs returned, summed, is within the
\* entitlement minus the allocation of the pool in every kind; and every
\* gang it does not return is still in the queue, in the order of before.
C15_DequeueWithinHeadroom ==
    [][IsDequeueStep
       => LET id == treeRet'.pool
              out == treeRet'.gangs
          IN  /\ Len(out) <= treeRet'.limit
              /\ Range(out) \subseteq Range(pending[id])
              /\ \A k \in Kinds :
                    SumDemand(out)[k] + allocation[id][k] <= entitlement[id][k]
                    \/ out = <<>>
              /\ pending'[id] =
                    SelectSeq(pending[id], LAMBDA g : g \notin Range(out))]_vars

\* DequeueGangs(2) has returned one gang and left a gang in the queue that
\* did not fit.
C15_Witness ==
    /\ treeRet.op = "DequeueGangs"
    /\ treeRet.err = "nil"
    /\ treeRet.limit = 2
    /\ Len(treeRet.gangs) = 1
    /\ pending[treeRet.pool] # <<>>
    /\ allocation[treeRet.pool] # ZeroResources

AllOrNonePending(states) ==
    \/ \A t \in DOMAIN states : states[t] = "PENDING"
    \/ \A t \in DOMAIN states : states[t] # "PENDING"

\* C16: a gang is admitted as a whole: DequeueGangs returns a gang only when
\* the demand of all its tasks together is within the headroom of the pool,
\* the tasks of a gang returned are READY, all of them, the tasks of the
\* other gangs are as they were, and in every state the tasks of a gang are
\* either all PENDING or none of them is.
C16_GangAdmittedWhole ==
    [][/\ \A g \in DOMAIN gangTasks' : AllOrNonePending(gangTasks'[g].states)
       /\ IsDequeueStep
           => \A g \in DOMAIN gangTasks :
                 IF gangTasks[g].gang \in Range(treeRet'.gangs)
                 THEN /\ \A k \in Kinds :
                            gangTasks[g].gang.demand[k] * gangTasks[g].gang.size
                                + allocation[treeRet'.pool][k]
                            <= entitlement[treeRet'.pool][k]
                      /\ \A t \in DOMAIN gangTasks[g].states :
                            /\ gangTasks[g].states[t] = "PENDING"
                            /\ gangTasks'[g].states[t] = "READY"
                 ELSE gangTasks'[g] = gangTasks[g]]_vars

\* DequeueGangs has returned a gang of two tasks, both READY, and left a
\* gang of two tasks, both PENDING, in the queue.
C16_Witness ==
    /\ treeRet.op = "DequeueGangs"
    /\ treeRet.err = "nil"
    /\ \E g \in DOMAIN gangTasks :
         /\ gangTasks[g].gang \in Range(treeRet.gangs)
         /\ gangTasks[g].states = <<"READY", "READY">>
    /\ \E g \in DOMAIN gangTasks :
         /\ gangTasks[g].gang \in Range(pending[treeRet.pool])
         /\ gangTasks[g].states = <<"PENDING", "PENDING">>

----------------------------------------------------------------------------
(* The entitlement calculator: one cycle walks the tree from the root and  *)
(* sets the entitlement of every pool.                                      *)

Min(a, b) == IF a < b THEN a ELSE b

Max(a, b) == IF a < b THEN b ELSE a

\* The demand of the gang at the head of a pool's pending queue.
headDemand(id) ==
    IF pending[id] = <<>> THEN ZeroResources ELSE GangDemand(Head(pending[id]))

\* The demand of a child in a kind: its reservation, or its allocation with
\* the demand at the head of its queue when that is more, capped at its
\* limit.
demand(tree, id, k) ==
    Min(tree[id].config.limit[k],
        Max(tree[id].config.reservation[k], allocation[id][k] + headDemand(id)[k]))

\* A child gets what it demands of its reservation, and no more.
reservedByDemand(tree, id, k) ==
    Min(tree[id].config.reservation[k], allocation[id][k] + headDemand(id)[k])

\* A child gets its reservation first.
reserved(tree, id, k) == tree[id].config.reservation[k]

\* The surplus a child may get: up to its demand and up to its limit.
surplusCap(tree, id, k) ==
    Min(demand(tree, id, k) - tree[id].config.reservation[k],
        tree[id].config.limit[k] - tree[id].config.reservation[k])

RECURSIVE SumOver(_, _)
SumOver(f, ids) ==
    IF ids = {} THEN 0
    ELSE LET id == CHOOSE x \in ids : TRUE IN f[id] + SumOver(f, ids \ {id})

RECURSIVE distribute(_, _, _, _, _, _)
\* The surplus pass: the children still under their cap share the surplus
\* in proportion to their shares, each up to its cap; the pass is repeated
\* with what is left, at most once per child.
distribute(tree, kids, k, given, surplus, rounds) ==
    LET under == {c \in kids : given[c] < surplusCap(tree, c, k)}
        shares == SumOver([c \in kids |-> tree[c].config.share], under)
        grant == [c \in kids |->
                    IF c \in under
                    THEN Min(surplusCap(tree, c, k) - given[c],
                             (surplus * tree[c].config.share) \div shares)
                    ELSE 0]
        granted == SumOver(grant, kids)
    IN  IF under = {} \/ surplus <= 0 \/ rounds = 0 \/ granted = 0 THEN given
        ELSE distribute(tree, kids, k, [c \in kids |-> given[c] + grant[c]],
                        surplus - granted, rounds - 1)

\* The entitlements of the children of a pool in a kind, from the
\* entitlement of the pool.
childEntitlements(tree, id, k, own) ==
    LET kids == Range(tree[id].children)
        first == [c \in kids |-> reserved(tree, c, k)]
        given == distribute(tree, kids, k, [c \in kids |-> 0],
                            own - SumOver(first, kids), Cardinality(kids))
    IN  [c \in kids |-> first[c] + given[c]]

RECURSIVE setEntitlements(_, _, _)
\* The walk from a pool down: its children get their entitlements, and then
\* theirs do.
setEntitlements(tree, id, ent) ==
    LET kids == Range(tree[id].children)
        mine == [k \in Kinds |-> childEntitlements(tree, id, k, ent[id][k])]
        with == [p \in DOMAIN ent |->
                   IF p \in kids THEN [k \in Kinds |-> mine[k][p]] ELSE ent[p]]
        walk[n \in 0..Len(tree[id].children)] ==
            IF n = 0 THEN with
            ELSE setEntitlements(tree, tree[id].children[n], walk[n - 1])
    IN  walk[Len(tree[id].children)]

\* One cycle: the root is entitled to the capacity of the cluster.
calculateEntitlement(tree, ent, cap) ==
    setEntitlements(tree, RootResPoolID, [ent EXCEPT ![RootResPoolID] = cap])

\* The configurations of the pools the calculator walks.
EntitlementConfigs(parent) ==
    {ResourcePoolConfig(parent, r, ls[1], ls[2], "PriorityFIFO") :
        r \in {Resources(1, 1), Resources(2, 1)},
        ls \in {<<Resources(2, 2), 1>>, <<Resources(4, 4), 1>>,
                <<Resources(4, 4), 2>>}}

\* The trees the calculator walks: respool1 and respool2 under the root,
\* respool11 under respool1, as far as Upsert accepts them.
EntitlementTrees ==
    {t.tree :
        t \in {up \in
                 {upsert(upsert(upsert(EmptyTree, "respool1", c1).tree,
                                "respool2", c2).tree, "respool11", c11) :
                     c1 \in EntitlementConfigs(RootResPoolID),
                     c2 \in EntitlementConfigs(RootResPoolID),
                     c11 \in EntitlementConfigs("respool1")} : up.err = "nil"}}

Capacities == {Resources(2, 4), Resources(3, 3), Resources(6, 2)}

EntitlementGangs == {Gang(0, 0, 1, Resources(1, 1)), Gang(0, 0, 2, Resources(1, 1))}

InitEntitlement ==
    /\ resPools \in EntitlementTrees
    /\ pending = [id \in PoolIDs |-> <<>>]
    /\ entitlement = [id \in PoolIDs |-> ZeroResources]
    /\ allocation = [id \in PoolIDs |-> ZeroResources]
    /\ gangTasks = <<>>
    /\ nextGang = 1
    /\ capacity \in Capacities
    /\ treeRet = NoTreeRet
    /\ runtime = Nil
    /\ store = Nil
    /\ ret = [op |-> "none"]
    /\ taskConfig = [maxFailures |-> 0]
    /\ IdleConc
    /\ IdleServer
    /\ IdleEngine
    /\ IdleJob
    /\ IdleExt

\* The host manager reports another capacity of the cluster.
UpdateClusterCapacity ==
    /\ \E cap \in Capacities :
         /\ capacity' = cap
         /\ treeRet' = TreeRet("UpdateClusterCapacity", "nil", RootResPoolID, TRUE, 0,
                               <<>>)
    /\ UNCHANGED <<resPools, pending, entitlement, allocation, gangTasks, nextGang>>
    /\ UNCHANGED <<taskVars, concVars, srvVars, engineVars, jobVars, extVars>>

\* A gang is enqueued on a leaf: the demand of the leaf grows.
EnqueueDemand ==
    /\ EnqueueGangOf(EntitlementGangs, {"respool11", "respool2"}, GangIDs)
    /\ UNCHANGED <<resPools, entitlement, allocation, capacity>>
    /\ UNCHANGED <<taskVars, concVars, srvVars, engineVars, jobVars, extVars>>

\* One cycle of the calculator, its results written by SetEntitlement.
CalculateEntitlement ==
    /\ entitlement' = calculateEntitlement(resPools, entitlement, capacity)
    /\ treeRet' = TreeRet("CalculateEntitlement", "nil", RootResPoolID, TRUE, 0, <<>>)
    /\ UNCHANGED <<resPools, pending, allocation, gangTasks, nextGang, capacity>>
    /\ UNCHANGED <<taskVars, concVars, srvVars, engineVars, jobVars, extVars>>

NextEntitlement == UpdateClusterCapacity \/ EnqueueDemand \/ CalculateEntitlement

SpecEntitlement == InitEntitlement /\ [][NextEntitlement]_vars

AfterCycle == treeRet.op = "CalculateEntitlement"

\* C19: after every cycle of the calculator, for every pool with children
\* and every kind, the entitlements of the children sum to no more than the
\* entitlement of the pool.
C19_PoolSum ==
    AfterCycle
    => \A id \in DOMAIN resPools, k \in Kinds :
          SumOver([c \in PoolIDs |-> entitlement[c][k]], Range(resPools[id].children))
            <= entitlement[id][k]

AllReservations(k) ==
    SumOver([c \in DOMAIN resPools |-> resPools[c].config.reservation[k]],
            DOMAIN resPools)

\* C20: after each cycle of the calculator, in every kind of which the
\* capacity of the cluster is at least the sum of the reservations of all
\* pools, the entitlement of every pool is at least its reservation.
C20_ReservationHonoured ==
    AfterCycle
    => \A k \in Kinds :
          capacity[k] >= AllReservations(k)
          => \A id \in DOMAIN resPools \ {RootResPoolID} :
                entitlement[id][k] >= resPools[id].config.reservation[k]

\* A cycle has run with a capacity of cpu that covers all reservations and
\* a capacity of memory that does not; respool1, without demand, holds its
\* reservation of cpu and respool2, with demand, more than its own.
C20_Witness ==
    /\ AfterCycle
    /\ capacity["cpu"] >= AllReservations("cpu")
    /\ capacity["memory"] < AllReservations("memory")
    /\ pending["respool2"] # <<>>
    /\ entitlement["respool1"]["cpu"] = resPools["respool1"].config.reservation["cpu"]
    /\ entitlement["respool2"]["cpu"] > resPools["respool2"].config.reservation["cpu"]

----------------------------------------------------------------------------
(* The placement engine (placement/engine.go), the offer service it uses    *)
(* (placement/offers/service.go) and the host manager's offer pool behind  *)
(* AcquireHostOffers and ReleaseHostOffers.  The engine and the host       *)
(* manager's handler are known from their tests and from the               *)
(* specification; the offer service is modelled from its code.             *)

\* The tasks the resource manager schedules.
TaskIDs == {"task1", "task2"}

\* The values of the clock.
Clock == 0 .. 2

\* PlacementConfig.MaxPlacementDuration, in ticks of the clock.
MaxPlacementDurations == {1}

\* PlacementConfig.MaxRounds of the task types.
MaxRoundsOf == {1, 2}

\* PlacementConfig.TaskDequeueLimit.
TaskDequeueLimits == {1, 2}

_failedToAcquireHostOffers == "failed to acquire host offers"

_failedToFetchTasksOnHosts == "failed to fetch tasks on hosts"

_failedToPlaceTaskAfterTimeout == "failed to place task after timeout"

\* string(filterRes): the reason a successful Acquire returns.
FilterResults == "filter results"

\* How the calls the offer service makes can fail: AcquireHostOffers returns
\* an error, GetTasksByHosts returns an error, ReleaseHostOffers returns an
\* error.  json.Marshal of a map[string]uint32 does not fail.
OfferFaults == {"none", "acquireErr", "fetchTasksErr", "releaseErr"}

\* AcquireHostOffers that leaves the claimed offers ready.
acquireHostOffersKeepsReady(pool, claimed) ==
    [ready |-> pool.ready, placing |-> pool.placing \cup claimed]

\* The handler's AcquireHostOffers: the claimed offers, ready ones that match
\* the filter, go from ready to placing.
acquireHostOffers(pool, claimed) ==
    [ready |-> pool.ready \ claimed, placing |-> pool.placing \cup claimed]

\* The handler's ReleaseHostOffers: the offers of the request that are
\* placing go back to ready.
releaseHostOffers(pool, offers) ==
    [ready |-> pool.ready \cup (offers \cap pool.placing),
     placing |-> pool.placing \ offers]

\* service.Acquire: the pool after the call, the offers the host manager
\* handed out (fetched) and the offers and the reason the call returns.
Acquire(pool, claimed, fault, fetchTasks) ==
    IF fault = "acquireErr"
    THEN [pool |-> pool, fetched |-> {}, offers |-> {},
          reason |-> _failedToAcquireHostOffers]
    ELSE IF claimed = {}
    THEN [pool |-> acquireHostOffers(pool, claimed), fetched |-> {},
          offers |-> {}, reason |-> _failedToAcquireHostOffers]
    ELSE IF fetchTasks /\ fault = "fetchTasksErr"
    THEN [pool |-> acquireHostOffers(pool, claimed), fetched |-> claimed,
          offers |-> {}, reason |-> _failedToFetchTasksOnHosts]
    ELSE [pool |-> acquireHostOffers(pool, claimed), fetched |-> claimed,
          offers |-> claimed, reason |-> FilterResults]

\* service.Release: the pool after the call and the offers that went back.
Release(pool, hosts, fault) ==
    IF hosts = {} \/ fault = "releaseErr"
    THEN [pool |-> pool, released |-> {}]
    ELSE [pool |-> releaseHostOffers(pool, hosts),
          released |-> hosts \cap pool.placing]

\* models.Assignment with its task: the host PlaceOnce chose or NoHost, the
\* task's deadline, the rounds it was placed in and its maximum of rounds.
Assignment(task, host, deadline, rounds, maxRounds) ==
    [task |-> task, host |-> host, deadline |-> deadline, rounds |-> rounds,
     maxRounds |-> maxRounds]

\* Task.PastDeadline(now): now is after the deadline.
PastDeadline(a, t) == t > a.deadline

\* Task.IncRounds.
IncRounds(a) == [a EXCEPT !.rounds = @ + 1]

\* A task that is past its rounds one round late.
PastMaxRoundsLate(a) == a.rounds > a.maxRounds

\* Task.PastMaxRounds.
PastMaxRounds(a) == a.rounds >= a.maxRounds

\* filterAssignments counts the round of every assignment that has a host.
countRounds(as) ==
    [i \in DOMAIN as |-> IF as[i].host = NoHost THEN as[i] ELSE IncRounds(as[i])]

\* A partition that takes a placed assignment and also hands it back.
listsOfBoth(a, t) ==
    IF a.host = NoHost
    THEN IF PastDeadline(a, t) THEN {"unassigned"} ELSE {"retryable"}
    ELSE {"assigned", "unassigned"}

\* The lists filterAssignments puts an assignment into, its round counted:
\* without a host it is unassigned past its deadline and retryable before;
\* with a host it is assigned once its rounds are used up or its deadline is
\* past, and retryable before.
listsOf(a, t) ==
    IF a.host = NoHost
    THEN IF PastDeadline(a, t) THEN {"unassigned"} ELSE {"retryable"}
    ELSE IF PastMaxRounds(a) \/ PastDeadline(a, t)
         THEN {"assigned"} ELSE {"retryable"}

\* The assignments of a sequence that are put into a list, in their order.
RECURSIVE listed(_, _, _)
listed(as, t, list) ==
    IF as = <<>> THEN <<>>
    ELSE (IF list \in listsOf(Head(as), t) THEN <<Head(as)>> ELSE <<>>)
         \o listed(Tail(as), t, list)

\* engine.filterAssignments(now, assignments).
filterAssignments(t, as) ==
    [assigned   |-> listed(countRounds(as), t, "assigned"),
     retryable  |-> listed(countRounds(as), t, "retryable"),
     unassigned |-> listed(countRounds(as), t, "unassigned")]

\* The hosts of the assignments of a sequence.
hostsOf(as) == {as[i].host : i \in DOMAIN as} \ {NoHost}

\* engine.findUsedHosts(assignments).
findUsedHosts(as) == hostsOf(as)

\* engine.findUnusedHosts(assigned, retryable, offers).
findUnusedHosts(assigned, retryable, offers) ==
    offers \ (hostsOf(assigned) \cup hostsOf(retryable))

\* engine.pastDeadline(now, assignments): every assignment is past it.
pastDeadline(t, as) == \A i \in DOMAIN as : PastDeadline(as[i], t)

\* models.PortRange: the ports begin .. end of an offer that are not taken.
PortRange(begin, end) == [begin |-> begin, end |-> end]

\* PortRange.NumPorts.
NumPorts(r) == IF r.end >= r.begin THEN r.end - r.begin + 1 ELSE 0

\* The ports of the ranges of an offer.
PortsOf(ranges) ==
    UNION {ranges[i].begin .. ranges[i].end : i \in DOMAIN ranges}

\* The orders in which the n ranges of an offer can be visited.
RangeOrders(n) ==
    {o \in [1 .. n -> 1 .. n] : \A i, j \in 1 .. n : o[i] = o[j] => i = j}

\* Taking ports that leaves them in the range.
RECURSIVE takePortsAgain(_, _, _)
takePortsAgain(avail, order, need) ==
    IF need = 0 \/ order = <<>>
    THEN [ports |-> <<>>, avail |-> avail]
    ELSE LET r == avail[Head(order)]
             n == Min(need, NumPorts(r))
             rest == takePortsAgain(avail, Tail(order), need - n)
         IN  [ports |-> [i \in 1 .. n |-> r.begin + i - 1] \o rest.ports,
              avail |-> rest.avail]

\* The ports one task gets: the ranges are visited in the given order, each
\* gives its lowest ports (PortRange.TakePorts) until the task has its
\* number of ports.
RECURSIVE takePorts(_, _, _)
takePorts(avail, order, need) ==
    IF need = 0 \/ order = <<>>
    THEN [ports |-> <<>>, avail |-> avail]
    ELSE LET r == avail[Head(order)]
             n == Min(need, NumPorts(r))
             rest == takePorts([avail EXCEPT ![Head(order)].begin = @ + n],
                               Tail(order), need - n)
         IN  [ports |-> [i \in 1 .. n |-> r.begin + i - 1] \o rest.ports,
              avail |-> rest.avail]

\* engine.assignPorts(offer, tasks): the ports of the tasks, one task after
\* the other; needs[i] is the number of ports task i needs and orders[i] the
\* order in which the ranges are visited for it.
RECURSIVE assignPorts(_, _, _)
assignPorts(offer, needs, orders) ==
    IF needs = <<>> THEN <<>>
    ELSE LET taken == takePorts(offer, Head(orders), Head(needs))
         IN  taken.ports \o assignPorts(taken.avail, Tail(needs), Tail(orders))

\* testutil.SetupHostOffers: the port range of the offer of a host.
HostPorts == <<PortRange(31000, 31009)>>

\* models.Placement of one task: its host and its ports.
Placement(task, host, ports) == [task |-> task, host |-> host, ports |-> ports]

\* The tasks of a sequence of assignments that are on a host, in order.
RECURSIVE tasksOn(_, _)
tasksOn(as, host) ==
    IF as = <<>> THEN <<>>
    ELSE (IF Head(as).host = host THEN <<Head(as).task>> ELSE <<>>)
         \o tasksOn(Tail(as), host)

\* engine.createPlacement(assigned): the assignments with a host become
\* placements, the tasks of a host taking one port each from its offer.
createPlacement(assigned) ==
    UNION {LET ts == tasksOn(assigned, h)
               ports == assignPorts(HostPorts, [i \in DOMAIN ts |-> 1],
                                    [i \in DOMAIN ts |-> <<1>>])
           IN  {Placement(ts[i], h, <<ports[i]>>) : i \in DOMAIN ts}
           : h \in hostsOf(assigned)}

\* An entry of the placement queue: a task ready to be placed and the reason
\* it was handed back with, if it was.
Ready(task, reason) == [task |-> task, reason |-> reason]

\* An Enqueue that hands every assignment back twice.
EnqueueTwice(q, as, reason) ==
    q \o [i \in DOMAIN as |-> Ready(as[i].task, reason)]
      \o [i \in DOMAIN as |-> Ready(as[i].task, reason)]

\* TaskService.Enqueue(assignments, reason): the tasks go back to the
\* resource manager, which puts them in the placement queue again.
Enqueue(q, as, reason) ==
    q \o [i \in DOMAIN as |-> Ready(as[i].task, reason)]

\* TaskService.Dequeue: up to limit tasks leave the placement queue and
\* become assignments without a host.
dequeued(q, limit, deadline, maxRounds) ==
    [i \in 1 .. Min(limit, Len(q)) |->
        Assignment(q[i].task, NoHost, deadline, 0, maxRounds)]

\* Strategy.PlaceOnce(assignments, offers): what the strategy can make of
\* the assignments; it gives assignments without a host a host of the
\* offers, or none.
PlaceOnce(as, offers) ==
    {[i \in DOMAIN as |->
        IF as[i].host = NoHost THEN [as[i] EXCEPT !.host = c[i]] ELSE as[i]]
     : c \in [DOMAIN as -> offers \cup {NoHost}]}

InitEngine ==
    /\ offerPool = ReadyPool
    /\ held = [a \in Acquirers |-> {}]
    /\ pendingTasks = TaskIDs
    /\ placementQueue = <<>>
    /\ assignments = <<>>
    /\ placements = {}
    /\ now = 0
    /\ engineRet = NoEngineRet
    /\ runtime = Nil
    /\ store = Nil
    /\ ret = [op |-> "none"]
    /\ taskConfig = [maxFailures |-> 0]
    /\ IdleConc
    /\ IdleServer
    /\ IdleTree
    /\ IdleJob
    /\ IdleExt

\* The task scheduler admits a task of a pool's pending queue: the task
\* becomes ready and waits in the placement queue.
Admit ==
    /\ \E t \in pendingTasks :
          /\ pendingTasks' = pendingTasks \ {t}
          /\ placementQueue' = Append(placementQueue, Ready(t, ""))
    /\ UNCHANGED <<offerPool, held, assignments, placements, now, engineRet>>
    /\ UNCHANGED <<taskVars, concVars, srvVars, treeVars, jobVars, extVars>>

\* engine.Place up to its loop: it dequeues the assignments of a group.
Dequeue ==
    /\ assignments = <<>>
    /\ placementQueue # <<>>
    /\ \E limit \in TaskDequeueLimits, d \in MaxPlacementDurations,
          maxRounds \in MaxRoundsOf :
          /\ assignments' = dequeued(placementQueue, limit, now + d, maxRounds)
          /\ placementQueue' =
                SubSeq(placementQueue, Min(limit, Len(placementQueue)) + 1,
                       Len(placementQueue))
    /\ engineRet' = EngineRet("Dequeue", {}, "", <<>>, NoLists)
    /\ UNCHANGED <<offerPool, held, pendingTasks, placements, now>>
    /\ UNCHANGED <<taskVars, concVars, srvVars, treeVars, jobVars, extVars>>

\* One pass of the loop of engine.placeAssignmentGroup, with the cleanup
\* that ends it: Acquire, and without offers either another try later or,
\* past the deadline, the assignments go back with the reason of Acquire;
\* with offers PlaceOnce, filterAssignments, SetPlacements of the assigned,
\* Release of the unused offers and Enqueue of the unassigned.
PlaceRound ==
    /\ assignments # <<>>
    /\ \E claimed \in SUBSET offerPool.ready, fault \in OfferFaults,
          fetchTasks \in BOOLEAN, dt \in {0, 1} :
          /\ now + dt \in Clock
          /\ now' = now + dt
          /\ LET acq == Acquire(offerPool, claimed, fault, fetchTasks)
                 offers == acq.offers \cup findUsedHosts(assignments)
             IN  IF offers = {}
                 THEN /\ offerPool' = acq.pool
                      /\ held' = [held EXCEPT !["batch"] = @ \cup acq.fetched]
                      /\ placements' = placements
                      /\ engineRet' = EngineRet("PlaceRound", acq.offers,
                                                acq.reason, <<>>, NoLists)
                      /\ IF pastDeadline(now', assignments)
                         THEN /\ placementQueue' =
                                    Enqueue(placementQueue, assignments,
                                            acq.reason)
                              /\ assignments' = <<>>
                         ELSE UNCHANGED <<placementQueue, assignments>>
                 ELSE \E placed \in PlaceOnce(assignments, offers) :
                      \E lists \in {filterAssignments(now', placed)} :
                      \E rel \in {Release(acq.pool,
                                   findUnusedHosts(lists.assigned,
                                                   lists.retryable, offers),
                                   fault)} :
                         /\ offerPool' = rel.pool
                         /\ held' = [held EXCEPT !["batch"] =
                                        (@ \cup acq.fetched) \ rel.released]
                         /\ placements' =
                               placements \cup createPlacement(lists.assigned)
                         /\ placementQueue' =
                               Enqueue(placementQueue, lists.unassigned,
                                       _failedToPlaceTaskAfterTimeout)
                         /\ assignments' = lists.retryable
                         /\ engineRet' = EngineRet("PlaceRound", acq.offers,
                                                   acq.reason, placed, lists)
    /\ UNCHANGED pendingTasks
    /\ UNCHANGED <<taskVars, concVars, srvVars, treeVars, jobVars, extVars>>

\* AcquireHostOffers of another placement engine.
AcquireHostOffers ==
    /\ \E claimed \in SUBSET offerPool.ready :
          /\ claimed # {}
          /\ offerPool' = acquireHostOffers(offerPool, claimed)
          /\ held' = [held EXCEPT !["stateless"] = @ \cup claimed]
    /\ UNCHANGED <<pendingTasks, placementQueue, assignments, placements, now,
                   engineRet>>
    /\ UNCHANGED <<taskVars, concVars, srvVars, treeVars, jobVars, extVars>>

\* ReleaseHostOffers of another placement engine, for offers it holds.
ReleaseHostOffers ==
    /\ \E offers \in SUBSET held["stateless"] :
          /\ offers # {}
          /\ offerPool' = releaseHostOffers(offerPool, offers)
          /\ held' = [held EXCEPT !["stateless"] = @ \ offers]
    /\ UNCHANGED <<pendingTasks, placementQueue, assignments, placements, now,
                   engineRet>>
    /\ UNCHANGED <<taskVars, concVars, srvVars, treeVars, jobVars, extVars>>

NextEngine ==
    Admit \/ Dequeue \/ PlaceRound \/ AcquireHostOffers \/ ReleaseHostOffers

SpecEngine == InitEngine /\ [][NextEngine]_vars

\* The places of the placement queue that hold a task.
InQueue(t) == {i \in DOMAIN placementQueue : placementQueue[i].task = t}

\* The published placements of a task.
PlacedOf(t) == {p \in placements : p.task = t}

\* C21: at any instant a task is in at most one of a pool's pending queue,
\* the placement queue and the placements on a host; so no placement round
\* publishes a placement of an assignment and also hands it back.
C21_NoDoublePlacement ==
    \A t \in TaskIDs :
        (IF t \in pendingTasks THEN 1 ELSE 0) + Cardinality(InQueue(t))
            + Cardinality(PlacedOf(t)) <= 1

\* A round published the placement of one assignment and handed back another.
C21_Witness ==
    /\ engineRet.op = "PlaceRound"
    /\ engineRet.lists.assigned # <<>>
    /\ engineRet.lists.unassigned # <<>>

\* The hosts of the published placements.
PlacedHosts == {p.host : p \in placements}

\* C22: every host offer the offer service acquired is returned: once the
\* placement round is over, an offer the host manager handed to the engine
\* is used by a published placement or was released back, on every path,
\* the failure paths of Acquire included.
C22_OffersReturned ==
    assignments = <<>> => held["batch"] \subseteq PlacedHosts

\* C23: a host offer handed out by AcquireHostOffers is held by exactly one
\* acquirer: it is placing and no longer ready, no two acquirers hold it,
\* and ReleaseHostOffers makes it ready again; every offer is counted in
\* exactly one of ready and placing.
C23_OneAcquirer ==
    /\ offerPool.ready \cap offerPool.placing = {}
    /\ offerPool.ready \cup offerPool.placing = Hosts
    /\ offerPool.placing = UNION {held[a] : a \in Acquirers}
    /\ \A a, b \in Acquirers : a # b => held[a] \cap held[b] = {}

\* Both acquirers hold an offer, and not the same one.
C23_Witness ==
    /\ held["batch"] # {}
    /\ held["stateless"] # {}
    /\ offerPool.ready = {}

\* The tasks of a sequence of assignments, in order.
TasksOf(as) == [i \in DOMAIN as |-> as[i].task]

\* The assignments handed to filterAssignments that have a host and are
\* taken: the deadline is exceeded or this round was the last of the task.
IsAssigned(a) ==
    a.host # NoHost /\ (now > a.deadline \/ a.rounds + 1 >= a.maxRounds)

\* Those that are tried again: the deadline is not exceeded, and they have no
\* host or have rounds left.
IsRetryable(a) ==
    now <= a.deadline /\ (a.host = NoHost \/ a.rounds + 1 < a.maxRounds)

\* Those that are given up: no host and the deadline is exceeded.
IsUnassigned(a) == a.host = NoHost /\ now > a.deadline

\* C24: filterAssignments(now, assignments) puts every assignment into
\* exactly one of three lists, keeping the input order: assigned when its
\* host is set and its deadline is exceeded or, this round counted, its
\* rounds reached its maximum; retryable when its deadline is not exceeded
\* and its host is unset or it has rounds left; unassigned when its host is
\* unset and its deadline is exceeded.
C24_FilterPartition ==
    engineRet.op = "PlaceRound" =>
        /\ TasksOf(engineRet.lists.assigned)
              = TasksOf(SelectSeq(engineRet.input, IsAssigned))
        /\ TasksOf(engineRet.lists.retryable)
              = TasksOf(SelectSeq(engineRet.input, IsRetryable))
        /\ TasksOf(engineRet.lists.unassigned)
              = TasksOf(SelectSeq(engineRet.input, IsUnassigned))
        /\ \A i \in DOMAIN engineRet.input :
              Cardinality({l \in {"assigned", "retryable", "unassigned"} :
                  \E j \in DOMAIN engineRet.lists[l] :
                      engineRet.lists[l][j].task = engineRet.input[i].task}) = 1

\* Two assignments before their deadline are tried again, one that has a
\* host and rounds left and one without a host.
C24_Witness ==
    /\ engineRet.op = "PlaceRound"
    /\ \E i \in DOMAIN engineRet.lists.retryable :
          engineRet.lists.retryable[i].host # NoHost
    /\ \E i \in DOMAIN engineRet.lists.retryable :
          engineRet.lists.retryable[i].host = NoHost

\* The partition by host and deadline alone.
HostInTime(a) == a.host # NoHost /\ now <= a.deadline

NoHostInTime(a) == a.host = NoHost /\ now <= a.deadline

\* C24 as stated: assigned when the host is set and the deadline is not
\* exceeded, retryable when the host is unset and the deadline is not
\* exceeded, unassigned when the deadline is exceeded.
C24_ByHostAndDeadline ==
    engineRet.op = "PlaceRound" =>
        /\ TasksOf(engineRet.lists.assigned)
              = TasksOf(SelectSeq(engineRet.input, HostInTime))
        /\ TasksOf(engineRet.lists.retryable)
              = TasksOf(SelectSeq(engineRet.input, NoHostInTime))
        /\ TasksOf(engineRet.lists.unassigned)
              = TasksOf(SelectSeq(engineRet.input, LAMBDA a : now > a.deadline))

\* The tasks whose assignment a step takes out of the round without
\* publishing a placement of them: they end the round without a host.
EndsWithoutHost(t) ==
    /\ \E i \in DOMAIN assignments : assignments[i].task = t
    /\ \A i \in DOMAIN assignments' : assignments'[i].task # t
    /\ PlacedOf(t)' = {}

\* C25: every assignment that ends a placement round without a host is
\* handed back to the scheduler exactly once through Enqueue; the reason is
\* _failedToPlaceTaskAfterTimeout, or, when the round ends because Acquire
\* returned no offers until the deadline, the reason Acquire returned.
C25_HandedBackOnce ==
    [][\A t \in TaskIDs :
          EndsWithoutHost(t) =>
              /\ Cardinality(InQueue(t)') = 1
              /\ \A i \in InQueue(t)' :
                    placementQueue'[i].reason =
                        IF engineRet'.input = <<>>
                        THEN engineRet'.reason
                        ELSE _failedToPlaceTaskAfterTimeout]_vars

\* A round ended without offers and handed its assignments back with the
\* reason of Acquire.
C25_Witness ==
    /\ engineRet.op = "PlaceRound"
    /\ engineRet.input = <<>>
    /\ assignments = <<>>
    /\ \E i \in DOMAIN placementQueue :
          /\ placementQueue[i].reason = engineRet.reason
          /\ engineRet.reason \in {_failedToAcquireHostOffers,
                                   _failedToFetchTasksOnHosts}

\* C25 as stated: the reason passed is always _failedToPlaceTaskAfterTimeout.
C25_AlwaysAfterTimeout ==
    [][\A t \in TaskIDs :
          EndsWithoutHost(t) =>
              /\ Cardinality(InQueue(t)') = 1
              /\ \A i \in InQueue(t)' :
                    placementQueue'[i].reason = _failedToPlaceTaskAfterTimeout]_vars

----------------------------------------------------------------------------
(* engine.assignPorts on its own: an offer, the tasks placed on it and the  *)
(* ports they get.                                                         *)

\* The port ranges of the offers: that of testutil.SetupHostOffers, the two
\* ranges of TestEngineAssignPortsFromMultipleRanges, and three ranges.
PortOffers ==
    {<<PortRange(31000, 31009)>>,
     <<PortRange(31000, 31001), PortRange(31002, 31009)>>,
     <<PortRange(31000, 31001), PortRange(31002, 31003),
       PortRange(31004, 31009)>>}

\* The numbers of ports the tasks on an offer need: one or two tasks; the
\* offer has the ports for them.
PortNeeds == UNION {[1 .. n -> 1 .. 3] : n \in 1 .. 2}

\* An offer and the tasks placed on it, and the ports assignPorts returned.
PortsRet(op, offer, needs, ports) ==
    [op |-> op, offer |-> offer, needs |-> needs, ports |-> ports]

InitPorts ==
    /\ engineRet \in {PortsRet("PlaceOnce", offer, needs, <<>>) :
                         offer \in PortOffers, needs \in PortNeeds}
    /\ offerPool = ReadyPool
    /\ held = [a \in Acquirers |-> {}]
    /\ pendingTasks = {}
    /\ placementQueue = <<>>
    /\ assignments = <<>>
    /\ placements = {}
    /\ now = 0
    /\ runtime = Nil
    /\ store = Nil
    /\ ret = [op |-> "none"]
    /\ taskConfig = [maxFailures |-> 0]
    /\ IdleConc
    /\ IdleServer
    /\ IdleTree
    /\ IdleJob
    /\ IdleExt

\* engine.assignPorts(offer, tasks); the ranges of the offer are kept in a
\* map, and each task visits them in the order the map yields them.
AssignPorts ==
    /\ engineRet.op = "PlaceOnce"
    /\ \E orders \in [DOMAIN engineRet.needs ->
                         RangeOrders(Len(engineRet.offer))] :
          engineRet' = PortsRet("assignPorts", engineRet.offer, engineRet.needs,
                                assignPorts(engineRet.offer, engineRet.needs,
                                            orders))
    /\ UNCHANGED <<offerPool, held, pendingTasks, placementQueue, assignments,
                   placements, now>>
    /\ UNCHANGED <<taskVars, concVars, srvVars, treeVars, jobVars, extVars>>

NextPorts == AssignPorts

SpecPorts == InitPorts /\ [][NextPorts]_vars

\* The sum of a sequence of numbers.
RECURSIVE SumSeq(_)
SumSeq(ns) == IF ns = <<>> THEN 0 ELSE Head(ns) + SumSeq(Tail(ns))

\* The ports of a sequence.
PortSet(ports) == {ports[i] : i \in DOMAIN ports}

\* The first n ports of the ranges of an offer, in the order of the offer.
RECURSIVE FirstPorts(_, _)
FirstPorts(ranges, n) ==
    IF n = 0 \/ ranges = <<>> THEN {}
    ELSE LET k == Min(n, NumPorts(Head(ranges)))
         IN  (Head(ranges).begin .. Head(ranges).begin + k - 1)
                 \cup FirstPorts(Tail(ranges), n - k)

\* C26: assignPorts(offer, tasks) returns exactly one port for every port
\* the tasks request, the ports are distinct and inside the offer's ranges,
\* and of each range the lowest ports are taken first; the ranges are used
\* in no fixed order.
C26_PortsAssigned ==
    engineRet.op = "assignPorts" =>
        /\ Len(engineRet.ports) = SumSeq(engineRet.needs)
        /\ Cardinality(PortSet(engineRet.ports)) = Len(engineRet.ports)
        /\ PortSet(engineRet.ports) \subseteq PortsOf(engineRet.offer)
        /\ \A i \in DOMAIN engineRet.offer :
              \A p \in PortSet(engineRet.ports) :
                 \A q \in engineRet.offer[i].begin .. engineRet.offer[i].end :
                    (p <= engineRet.offer[i].end /\ q < p)
                        => q \in PortSet(engineRet.ports)

\* The ports come from the second range of an offer whose first range has
\* all its ports left.
C26_Witness ==
    /\ engineRet.op = "assignPorts"
    /\ Len(engineRet.offer) = 2
    /\ engineRet.ports # <<>>
    /\ \A p \in PortSet(engineRet.ports) : p >= engineRet.offer[2].begin

\* C26 as stated: the ports are taken first-fit across the ranges, the
\* lowest ports of the first range first.
C26_FirstFit ==
    engineRet.op = "assignPorts" =>
        PortSet(engineRet.ports)
            = FirstPorts(engineRet.offer, SumSeq(engineRet.needs))

----------------------------------------------------------------------------
(* Recovery of the resource manager (resmgr/recovery.go), known from       *)
(* TestRefillTaskQueue and from the specification: on leadership gain the  *)
(* tree is built from the stored pools and the stored jobs are scanned.    *)

\* The stored jobs, in the order GetJobsByStates returns them; all are in
\* the leaf pool RecoveryPool.
RecoveryJobs == <<"TestJob_0", "TestJob_1">>

RecoveryPool == "respool11"

\* The instances of a stored job.
Instances == {1, 2}

\* The stored tasks: of every job, the state of every instance.
StoredJobs == [Range(RecoveryJobs) -> [Instances -> StoredTaskStates]]

\* createTasks: the resources of every stored task.
TaskDemand == Resources(1, 1)

\* createJob: Sla.Priority.
JobPriority == 1

\* The tasks of a job that are stored in one of some states.
tasksIn(js, job, states) ==
    {<<job, i>> : i \in {i \in Instances : js[job][i] \in states}}

\* The gang the tasks of a job are enqueued as again.
gangOf(job, members) ==
    [id |-> job, priority |-> JobPriority, size |-> Cardinality(members),
     demand |-> TaskDemand, tasks |-> members]

\* The runs of recovery that are followed.
RecoveryRuns == {1, 2}

\* A start of the pool tree that keeps the queues and the allocations the
\* tree had.
startTreeKept(old) == old

\* Step 1 of recovery: the pool tree is built from the stored pool
\* configurations; its queues are empty and nothing is allocated.
startTree(old) ==
    [pending |-> [id \in PoolIDs |-> <<>>],
     allocation |-> [id \in PoolIDs |-> ZeroResources]]

\* A scan that re-enqueues the tasks that run as well.
requeuedStates == {"PENDING", "RUNNING", "LAUNCHED"}

\* The states whose tasks recovery enqueues again.
nonRunningStates == {"PENDING"}

\* The states whose tasks recovery only adds to the tracker.
runningStates == {"RUNNING", "LAUNCHED"}

\* Step 2 of recovery for the jobs of a sequence: the PENDING tasks of a
\* job are enqueued as its gang on the pool, the tasks that run are added
\* to the allocation of the pool.
RECURSIVE requeueJobs(_, _, _)
requeueJobs(tree, js, jobs) ==
    IF jobs = <<>> THEN tree
    ELSE LET job == Head(jobs)
             again == tasksIn(js, job, nonRunningStates)
             running == tasksIn(js, job, runningStates)
             gang == gangOf(job, again)
         IN  requeueJobs(
                [pending |->
                    IF again = {} THEN tree.pending
                    ELSE [tree.pending EXCEPT
                             ![RecoveryPool] = enqueued(@, gang)],
                 allocation |->
                    [tree.allocation EXCEPT
                        ![RecoveryPool] =
                            Add(@, Scale(TaskDemand, Cardinality(running)))]],
                js, Tail(jobs))

\* The tracker after recovery: an entry for every task that is enqueued
\* again or runs, in its stored state.
recoveredEntries(js) ==
    LET ids == UNION {tasksIn(js, job, nonRunningStates \cup runningStates) :
                         job \in Range(RecoveryJobs)}
    IN  [t \in ids |-> js[t[1]][t[2]]]

\* Recovery: the tree and the tracker it leaves.
recovery(old, js) ==
    [tree |-> requeueJobs(startTree(old), js, RecoveryJobs),
     tracker |-> recoveredEntries(js)]

InitRecovery ==
    /\ tasks \in StoredJobs
    /\ tracker = <<>>
    /\ resPools = QueueTree
    /\ pending = [id \in PoolIDs |-> <<>>]
    /\ entitlement = [id \in PoolIDs |-> ZeroResources]
    /\ allocation = [id \in PoolIDs |-> ZeroResources]
    /\ gangTasks = <<>>
    /\ nextGang = 1
    /\ capacity = ZeroResources
    /\ treeRet = NoTreeRet
    /\ spc = "idle"
    /\ calls = <<>>
    /\ started = {}
    /\ srvRet = [cb |-> "none", err |-> NoErr]
    /\ queue = {}
    /\ runtime = Nil
    /\ store = Nil
    /\ ret = [op |-> "none"]
    /\ taskConfig = [maxFailures |-> 0]
    /\ IdleConc
    /\ IdleEngine
    /\ IdleJob
    /\ IdleExt

\* The node gains leadership: the pool tree starts and recovery runs until
\* it has finished.
Recover ==
    /\ Len(calls) + 1 \in RecoveryRuns
    /\ calls' = Append(calls, "recoveryHandler.Start")
    /\ \E out \in {recovery([pending |-> pending, allocation |-> allocation],
                            tasks)} :
          /\ pending' = out.tree.pending
          /\ allocation' = out.tree.allocation
          /\ tracker' = out.tracker
    /\ entitlement' = [id \in PoolIDs |-> ZeroResources]
    /\ treeRet' = TreeRet("Recover", "nil", RecoveryPool, TRUE, 0, <<>>)
    /\ UNCHANGED <<resPools, gangTasks, nextGang, capacity>>
    /\ UNCHANGED <<spc, started, srvRet, tasks, queue>>
    /\ UNCHANGED <<taskVars, concVars, engineVars, jobVars, extVars>>

\* getQueueContent: DequeueGangs(1) on the pool; the tasks of the gang it
\* returns are READY in the tracker.
DequeueRecovered ==
    /\ \E out \in {dequeue(pending[RecoveryPool], Headroom(RecoveryPool), 1)} :
          /\ pending' = [pending EXCEPT ![RecoveryPool] = out.left]
          /\ tracker' =
                [t \in DOMAIN tracker |->
                    IF \E i \in DOMAIN out.gangs : t \in out.gangs[i].tasks
                    THEN "READY" ELSE tracker[t]]
          /\ treeRet' = TreeRet("DequeueGangs", "nil", RecoveryPool, TRUE, 1,
                                out.gangs)
    /\ UNCHANGED <<resPools, entitlement, allocation, gangTasks, nextGang,
                   capacity>>
    /\ UNCHANGED <<spc, calls, started, srvRet, tasks, queue>>
    /\ UNCHANGED <<taskVars, concVars, engineVars, jobVars, extVars>>

NextRecovery == Recover \/ SetEntitlement \/ DequeueRecovered

SpecRecovery == InitRecovery /\ [][NextRecovery]_vars

\* The places of the queue of the recovered pool whose gang holds a task.
GangsOf(t) ==
    {k \in DOMAIN pending[RecoveryPool] : t \in pending[RecoveryPool][k].tasks}

\* The queue of the pool is dequeueable: with the pool entitled to its
\* limit, DequeueGangs returns every gang of it.
Dequeueable ==
    dequeue(pending[RecoveryPool],
            Subtract(resPools[RecoveryPool].config.limit,
                     allocation[RecoveryPool]),
            Len(pending[RecoveryPool])).left = <<>>

\* C27: after recovery every stored PENDING task is in the pending queue of
\* its leaf pool, once, in the gang of its job with the other PENDING tasks
\* of the job, and can be dequeued; a stored RUNNING or LAUNCHED task has a
\* tracker entry and is in no queue; a stored INITIALIZED or terminal task
\* has neither a tracker entry nor a place in a queue.
C27_RecoveredByState ==
    treeRet.op = "Recover" =>
        /\ \A job \in Range(RecoveryJobs), i \in Instances :
              LET t == <<job, i>>
                  st == tasks[job][i]
              IN  /\ st = "PENDING" =>
                        /\ Cardinality(GangsOf(t)) = 1
                        /\ \A k \in GangsOf(t) :
                              /\ pending[RecoveryPool][k].id = job
                              /\ pending[RecoveryPool][k].tasks =
                                    {<<job, j>> : j \in
                                        {j \in Instances :
                                            tasks[job][j] = "PENDING"}}
                  /\ st \in {"RUNNING", "LAUNCHED"} =>
                        /\ t \in DOMAIN tracker
                        /\ tracker[t] = st
                        /\ GangsOf(t) = {}
                  /\ st \in {"INITIALIZED", "SUCCEEDED"} =>
                        /\ t \notin DOMAIN tracker
                        /\ GangsOf(t) = {}
        /\ Dequeueable
        /\ \A id \in PoolIDs \ {RecoveryPool} : pending[id] = <<>>

\* Recovery found a job with two PENDING tasks and one with a task that runs
\* and a task that is INITIALIZED.
C27_Witness ==
    /\ treeRet.op = "Recover"
    /\ \E k \in DOMAIN pending[RecoveryPool] :
          pending[RecoveryPool][k].size = 2
    /\ \E job \in Range(RecoveryJobs) :
          /\ tasks[job][1] = "RUNNING"
          /\ tasks[job][2] = "INITIALIZED"
          /\ <<job, 1>> \in DOMAIN tracker

----------------------------------------------------------------------------
\* Job recovery of the job manager (jobmgr/job): recoverJobs reads the jobs
\* the store holds as INITIALIZED and, for each one created long enough ago,
\* creates the missing tasks, sends the tasks to the resource manager with
\* EnqueueGangs and then writes the job runtime as PENDING.

JobInstances == 0 .. 2

MaxRecoveryFailures == 2

JobTaskStates == {"none", "INITIALIZED", "RUNNING"}

JobRuntime(state, old) == [state |-> state, old |-> old]

RecoveryFaults == {"none", "enqueueErr", "updateErr"}

JobRet(op, err, failures) == [op |-> op, err |-> err, failures |-> failures]

\* GetTaskForJob answers TaskNotFoundError for an instance the store lacks,
\* and recoverJob creates that task as INITIALIZED.
createMissing(ts) ==
    [i \in DOMAIN ts |-> IF ts[i] = "none" THEN "INITIALIZED" ELSE ts[i]]

\* The tasks recoverJob puts into the EnqueueGangs request.
tasksToSend(ts) == {i \in DOMAIN ts : createMissing(ts)[i] = "INITIALIZED"}

enqueueGangsIgnoresError(sent, send, fault) == sent \cup send

\* The resource manager's answer to EnqueueGangs: an error takes no task.
enqueueGangs(sent, send, fault) ==
    IF fault = "enqueueErr" THEN sent ELSE sent \cup send

\* recoverJob(jobID): what it leaves in the stores and at the resource
\* manager, and the error it returns.
recoverJob(rt, ts, sent, fault) ==
    LET created == createMissing(ts)
        after == enqueueGangs(sent, tasksToSend(ts), fault)
    IN  IF fault = "enqueueErr"
        THEN [rt |-> rt, ts |-> created, sent |-> after,
              err |-> "Mock client error"]
        ELSE IF fault = "updateErr"
        THEN [rt |-> rt, ts |-> created, sent |-> after,
              err |-> "Mock error"]
        ELSE [rt |-> JobRuntime("PENDING", rt.old), ts |-> created,
              sent |-> after, err |-> "nil"]

InitJobRecovery ==
    /\ jobRuntime \in {JobRuntime("INITIALIZED", old) : old \in BOOLEAN}
    /\ taskStore \in [JobInstances -> JobTaskStates]
    /\ sentTasks = {}
    /\ goalStates = <<>>
    /\ hostKills = {}
    /\ jobRet = JobRet("none", "nil", 0)
    /\ runtime = Nil
    /\ store = Nil
    /\ ret = [op |-> "none"]
    /\ taskConfig = [maxFailures |-> 0]
    /\ IdleConc
    /\ IdleServer
    /\ IdleTree
    /\ IdleEngine
    /\ IdleExt

\* recoverJobs: GetJobsByState(INITIALIZED), and recoverJob for each job
\* whose creation time is long ago; a recent job is skipped.
recoverJobs ==
    /\ \E fault \in RecoveryFaults :
         IF jobRuntime.state = "INITIALIZED" /\ jobRuntime.old
         THEN /\ fault # "none" => jobRet.failures < MaxRecoveryFailures
              /\ \E out \in {recoverJob(jobRuntime, taskStore, sentTasks,
                                        fault)} :
                   /\ jobRuntime' = out.rt
                   /\ taskStore' = out.ts
                   /\ sentTasks' = out.sent
                   /\ jobRet' = JobRet("recoverJobs", out.err,
                                       IF out.err = "nil"
                                       THEN jobRet.failures
                                       ELSE jobRet.failures + 1)
         ELSE /\ fault = "none"
              /\ jobRet' = JobRet("recoverJobs", "nil", jobRet.failures)
              /\ UNCHANGED <<jobRuntime, taskStore, sentTasks>>
    /\ UNCHANGED <<goalStates, hostKills>>
    /\ UNCHANGED <<taskVars, concVars, srvVars, treeVars, engineVars, extVars>>

\* Time passes: the job's creation time becomes long ago.
JobAges ==
    /\ ~jobRuntime.old
    /\ jobRuntime' = JobRuntime(jobRuntime.state, TRUE)
    /\ UNCHANGED <<taskStore, sentTasks, goalStates, hostKills, jobRet>>
    /\ UNCHANGED <<taskVars, concVars, srvVars, treeVars, engineVars, extVars>>

NextJobRecovery == recoverJobs \/ JobAges

SpecJobRecovery == InitJobRecovery /\ [][NextJobRecovery]_vars

\* C30: job recovery writes an INITIALIZED job as PENDING only when its tasks
\* were sent to the resource manager with EnqueueGangs: a run whose
\* EnqueueGangs fails leaves the job runtime state INITIALIZED and sends no
\* task, and a run after it in which nothing fails sends the tasks and
\* leaves the job PENDING.
C30_PendingAfterSent ==
    [][(jobRet'.op = "recoverJobs" /\ jobRuntime.state = "INITIALIZED"
          /\ jobRuntime.old)
       => /\ jobRuntime'.state = "PENDING"
               => tasksToSend(taskStore) \subseteq sentTasks'
          /\ jobRet'.err = "Mock client error"
               => /\ jobRuntime'.state = "INITIALIZED"
                  /\ sentTasks' = sentTasks
          /\ jobRet'.err = "nil"
               => /\ jobRuntime'.state = "PENDING"
                  /\ \A i \in JobInstances :
                       taskStore'[i] = "INITIALIZED" => i \in sentTasks']_vars

\* A run that reached PENDING after an earlier run failed in EnqueueGangs.
C30_Witness ==
    /\ jobRet.op = "recoverJobs"
    /\ jobRet.err = "nil"
    /\ jobRet.failures >= 1
    /\ jobRuntime.state = "PENDING"
    /\ sentTasks # {}


----------------------------------------------------------------------------
\* Stopping the tasks of a gang (jobmgr/goalstate TaskStop): the goal state
\* engine runs TaskStop for every task whose goal state is KILLED until the
\* task is KILLED.  A task the resource manager still owns is killed there
\* and patched KILLED; a task with a mesos task is patched KILLING and
\* killed through the host manager, and the status update of the kill makes
\* it KILLED.

GangInstances == {1, 2, 3}

StopPool == "respool11"

_errFake == "fake error"

\* The tracker of the resource manager without some tasks.
untracked(tr, ids) == [t \in DOMAIN tr \ ids |-> tr[t]]

\* resmgr KillTasks([i]): the task leaves the tracker, and a task that ran
\* leaves the allocation of its pool; a task the tracker does not hold is
\* answered as not found.
resmgrKillTasks(tr, alloc, i) ==
    IF i \notin DOMAIN tr
    THEN [tracker |-> tr, allocation |-> alloc, notFound |-> TRUE]
    ELSE [tracker |-> untracked(tr, {i}),
          allocation |->
             IF tr[i] = "RUNNING"
             THEN [alloc EXCEPT ![StopPool] = Subtract(@, TaskDemand)]
             ELSE alloc,
          notFound |-> FALSE]

hostKillTasksDropped(kills, i) == kills

\* hostmgr KillTasks([mesos task id of i]).
hostKillTasks(kills, i) == kills \cup {i}

\* The states in which the resource manager owns the task for TaskStop.
stoppedInResmgr == {"INITIALIZED", "PENDING"}

InitStop ==
    /\ taskStore = [i \in GangInstances |-> "INITIALIZED"]
    /\ goalStates = [i \in GangInstances |-> "RUNNING"]
    /\ jobRuntime = Nil
    /\ sentTasks = {}
    /\ hostKills = {}
    /\ jobRet = JobRet("none", "nil", 0)
    /\ tracker = <<>>
    /\ resPools = QueueTree
    /\ pending = [id \in PoolIDs |-> <<>>]
    /\ entitlement = [id \in PoolIDs |-> ZeroResources]
    /\ allocation = [id \in PoolIDs |-> ZeroResources]
    /\ gangTasks = <<>>
    /\ nextGang = 1
    /\ capacity = ZeroResources
    /\ treeRet = NoTreeRet
    /\ spc = "idle"
    /\ calls = <<>>
    /\ started = {}
    /\ srvRet = [cb |-> "none", err |-> NoErr]
    /\ tasks = <<>>
    /\ queue = {}
    /\ runtime = Nil
    /\ store = Nil
    /\ ret = [op |-> "none"]
    /\ taskConfig = [maxFailures |-> 0]
    /\ IdleConc
    /\ IdleEngine
    /\ IdleExt

\* EnqueueGang(g): the resource manager tracks every task of the gang as
\* PENDING; the job manager then writes the tasks as PENDING, which fails
\* for any of them.
EnqueueStopGang ==
    /\ sentTasks = {}
    /\ sentTasks' = GangInstances
    /\ tracker' = [i \in GangInstances |-> "PENDING"]
    /\ \E written \in SUBSET GangInstances :
          taskStore' = [i \in GangInstances |->
                           IF i \in written THEN "PENDING" ELSE taskStore[i]]
    /\ jobRet' = JobRet("EnqueueGang", "nil", 0)
    /\ UNCHANGED <<jobRuntime, goalStates, hostKills>>
    /\ UNCHANGED <<spc, calls, started, srvRet, tasks, queue>>
    /\ UNCHANGED <<taskVars, concVars, treeVars, engineVars, extVars>>

\* The task is placed and launched and runs: its demand is in the
\* allocation of the pool.
TaskRuns(i) ==
    /\ i \in DOMAIN tracker
    /\ tracker[i] = "PENDING"
    /\ taskStore[i] \in stoppedInResmgr
    /\ tracker' = [tracker EXCEPT ![i] = "RUNNING"]
    /\ allocation' = [allocation EXCEPT ![StopPool] = Add(@, TaskDemand)]
    /\ taskStore' = [taskStore EXCEPT ![i] = "RUNNING"]
    /\ jobRet' = JobRet("TaskRuns", "nil", 0)
    /\ UNCHANGED <<jobRuntime, sentTasks, goalStates, hostKills>>
    /\ UNCHANGED <<resPools, pending, entitlement, gangTasks, nextGang,
                   capacity, treeRet>>
    /\ UNCHANGED <<spc, calls, started, srvRet, tasks, queue>>
    /\ UNCHANGED <<taskVars, concVars, engineVars, extVars>>

\* The kill of every task of the gang: the goal state of each is KILLED.
KillGang ==
    /\ sentTasks = GangInstances
    /\ \E i \in GangInstances : goalStates[i] # "KILLED"
    /\ goalStates' = [i \in GangInstances |-> "KILLED"]
    /\ jobRet' = JobRet("Kill", "nil", 0)
    /\ UNCHANGED <<jobRuntime, taskStore, sentTasks, hostKills>>
    /\ UNCHANGED <<srvVars, taskVars, concVars, treeVars, engineVars, extVars>>

\* TaskStop(i) in which every call succeeds.
TaskStop(i) ==
    /\ goalStates[i] = "KILLED"
    /\ taskStore[i] # "KILLED"
    /\ IF taskStore[i] \in stoppedInResmgr
       THEN \E out \in {resmgrKillTasks(tracker, allocation, i)} :
               /\ tracker' = out.tracker
               /\ allocation' = out.allocation
               /\ taskStore' = [taskStore EXCEPT ![i] = "KILLED"]
               /\ UNCHANGED hostKills
       ELSE /\ taskStore' = [taskStore EXCEPT ![i] = "KILLING"]
            /\ hostKills' = hostKillTasks(hostKills, i)
            /\ UNCHANGED <<tracker, allocation>>
    /\ jobRet' = JobRet("TaskStop", "nil", 0)
    /\ UNCHANGED <<jobRuntime, sentTasks, goalStates>>
    /\ UNCHANGED <<resPools, pending, entitlement, gangTasks, nextGang,
                   capacity, treeRet>>
    /\ UNCHANGED <<spc, calls, started, srvRet, tasks, queue>>
    /\ UNCHANGED <<taskVars, concVars, engineVars, extVars>>

\* TaskStop(i) that returns an error: reading the runtime fails and nothing
\* is done, or the kill of the host manager fails after the task was
\* patched KILLING.
TaskStopFails(i) ==
    /\ goalStates[i] = "KILLED"
    /\ taskStore[i] # "KILLED"
    /\ \E killing \in BOOLEAN :
          taskStore' =
             IF killing /\ taskStore[i] \notin stoppedInResmgr
             THEN [taskStore EXCEPT ![i] = "KILLING"]
             ELSE taskStore
    /\ jobRet' = JobRet("TaskStop", _errFake, 0)
    /\ UNCHANGED <<jobRuntime, sentTasks, goalStates, hostKills>>
    /\ UNCHANGED <<srvVars, taskVars, concVars, treeVars, engineVars, extVars>>

\* The status update of a kill the host manager was asked for: the task is
\* KILLED, and the resource manager drops it and returns its allocation.
KilledEvent(i) ==
    /\ i \in hostKills
    /\ hostKills' = hostKills \ {i}
    /\ taskStore' = [taskStore EXCEPT ![i] = "KILLED"]
    /\ \E out \in {resmgrKillTasks(tracker, allocation, i)} :
          /\ tracker' = out.tracker
          /\ allocation' = out.allocation
    /\ jobRet' = JobRet("KilledEvent", "nil", 0)
    /\ UNCHANGED <<jobRuntime, sentTasks, goalStates>>
    /\ UNCHANGED <<resPools, pending, entitlement, gangTasks, nextGang,
                   capacity, treeRet>>
    /\ UNCHANGED <<spc, calls, started, srvRet, tasks, queue>>
    /\ UNCHANGED <<taskVars, concVars, engineVars, extVars>>

NextStop ==
    \/ EnqueueStopGang
    \/ KillGang
    \/ \E i \in GangInstances : TaskRuns(i)
    \/ \E i \in GangInstances : TaskStop(i)
    \/ \E i \in GangInstances : TaskStopFails(i)
    \/ \E i \in GangInstances : KilledEvent(i)

\* The goal state engine runs TaskStop again until the goal state is
\* reached, and the host manager's kill is answered by a status update.
SpecStop ==
    /\ InitStop
    /\ [][NextStop]_vars
    /\ \A i \in GangInstances :
          WF_vars(TaskStop(i)) /\ WF_vars(KilledEvent(i))

KillRequested == \A i \in GangInstances : goalStates[i] = "KILLED"

AllKilled ==
    /\ \A i \in GangInstances : taskStore[i] = "KILLED"
    /\ tracker = <<>>
    /\ allocation[StopPool] = ZeroResources

----------------------------------------------------------------------------
\* The host manager's handler (hostmgr): LaunchTasks and OfferOperations on
\* the offers a caller acquired with AcquireHostOffers.  A request is
\* validated first; a valid one claims the offers of its host, which must be
\* placing, and sends one ACCEPT call with the operations to Mesos.

MaxInvalidRequests == 2

LaunchableTasks == {<<>>, <<"task1">>}

\* The operation types of the requests to OfferOperations that are followed:
\* a LAUNCH alone, and RESERVE, CREATE and LAUNCH in the orders in which
\* LAUNCH precedes CREATE or the order is RESERVE, CREATE, LAUNCH.
OperationRequests ==
    {<<"LAUNCH">>,
     <<"RESERVE", "CREATE", "LAUNCH">>,
     <<"RESERVE", "LAUNCH", "CREATE">>,
     <<"LAUNCH", "RESERVE", "CREATE">>,
     <<"LAUNCH", "CREATE", "RESERVE">>}

HostRet(op, host, types, launched, err, invalid) ==
    [op |-> op, host |-> host, types |-> types, tasks |-> launched,
     err |-> err, invalid |-> invalid]

NoRequest == HostRet("none", NoHost, <<>>, <<>>, "nil", 0)

\* A validation that accepts the operations in any order.
validOperationsAnyOrder(types, launched) == launched # <<>>

\* The requests OfferOperations accepts: a LAUNCH alone or RESERVE, CREATE,
\* LAUNCH in this order, with tasks to launch.
validOperations(types, launched) ==
    /\ types \in {<<"LAUNCH">>, <<"RESERVE", "CREATE", "LAUNCH">>}
    /\ launched # <<>>

\* A claim that leaves the offers of the host placing.
claimForLaunchKept(pool, host) == [pool |-> pool, claimed |-> host \in pool.placing]

\* offerPool.ClaimForLaunch(hostname): the offers of a host that is placing
\* leave the pool.
claimForLaunch(pool, host) ==
    IF host \in pool.placing
    THEN [pool |-> [ready |-> pool.ready \ {host},
                    placing |-> pool.placing \ {host}],
          claimed |-> TRUE]
    ELSE [pool |-> pool, claimed |-> FALSE]

\* The ACCEPT call of the offers of a host with some operations.
Accept(host, types, launched) ==
    [type |-> "ACCEPT", host |-> host, operations |-> types,
     tasks |-> launched]

\* A request to launch with some operations: the pool and the calls to
\* Mesos after it, and the error of the response.
launch(pool, sent, host, types, launched, valid) ==
    IF ~valid
    THEN [pool |-> pool, calls |-> sent, err |-> "InvalidArgument"]
    ELSE LET out == claimForLaunch(pool, host)
         IN  IF ~out.claimed
             THEN [pool |-> pool, calls |-> sent, err |-> "InvalidOffers"]
             ELSE [pool |-> out.pool,
                   calls |-> Append(sent, Accept(host, types, launched)),
                   err |-> "nil"]

InitHostmgr ==
    /\ offerPool = ReadyPool
    /\ held = [a \in Acquirers |-> {}]
    /\ pendingTasks = {}
    /\ placementQueue = <<>>
    /\ assignments = <<>>
    /\ placements = {}
    /\ now = 0
    /\ engineRet = NoEngineRet
    /\ mesosCalls = <<>>
    /\ hostRet = NoRequest
    /\ IdleLoops
    /\ IdleCleaner
    /\ runtime = Nil
    /\ store = Nil
    /\ ret = [op |-> "none"]
    /\ taskConfig = [maxFailures |-> 0]
    /\ IdleConc
    /\ IdleServer
    /\ IdleTree
    /\ IdleJob

\* handler.LaunchTasks(request) for a host and the tasks of the request.
LaunchTasks ==
    /\ \E host \in Hosts, launched \in LaunchableTasks :
         \E out \in {launch(offerPool, mesosCalls, host, <<"LAUNCH">>,
                            launched, launched # <<>>)} :
            /\ out.err # "nil" => hostRet.invalid < MaxInvalidRequests
            /\ offerPool' = out.pool
            /\ mesosCalls' = out.calls
            /\ held' = IF out.err = "nil"
                       THEN [a \in Acquirers |-> held[a] \ {host}]
                       ELSE held
            /\ hostRet' = HostRet("LaunchTasks", host, <<"LAUNCH">>, launched,
                                  out.err,
                                  IF out.err = "nil" THEN hostRet.invalid
                                  ELSE hostRet.invalid + 1)
    /\ UNCHANGED <<pendingTasks, placementQueue, assignments, placements, now,
                   engineRet>>
    /\ UNCHANGED <<taskVars, concVars, srvVars, treeVars, jobVars, loopVars,
                   cleanerVars>>

\* handler.OfferOperations(request) for a host and the operations of the
\* request.
OfferOperations ==
    /\ \E host \in Hosts, types \in OperationRequests,
          launched \in LaunchableTasks :
         \E out \in {launch(offerPool, mesosCalls, host, types, launched,
                            validOperations(types, launched))} :
            /\ out.err # "nil" => hostRet.invalid < MaxInvalidRequests
            /\ offerPool' = out.pool
            /\ mesosCalls' = out.calls
            /\ held' = IF out.err = "nil"
                       THEN [a \in Acquirers |-> held[a] \ {host}]
                       ELSE held
            /\ hostRet' = HostRet("OfferOperations", host, types, launched,
                                  out.err,
                                  IF out.err = "nil" THEN hostRet.invalid
                                  ELSE hostRet.invalid + 1)
    /\ UNCHANGED <<pendingTasks, placementQueue, assignments, placements, now,
                   engineRet>>
    /\ UNCHANGED <<taskVars, concVars, srvVars, treeVars, jobVars, loopVars,
                   cleanerVars>>

NextHostmgr ==
    AcquireHostOffers \/ ReleaseHostOffers \/ LaunchTasks \/ OfferOperations

SpecHostmgr == InitHostmgr /\ [][NextHostmgr]_vars

\* The place of an operation type in a request, 0 when it has none.
PlaceOf(types, type) ==
    IF \E i \in DOMAIN types : types[i] = type
    THEN CHOOSE i \in DOMAIN types : types[i] = type
    ELSE 0

LaunchBeforeCreate(types) ==
    /\ PlaceOf(types, "LAUNCH") # 0
    /\ PlaceOf(types, "CREATE") # 0
    /\ PlaceOf(types, "LAUNCH") < PlaceOf(types, "CREATE")

IsRequestStep(op) == hostRet' # hostRet /\ hostRet'.op = op

----------------------------------------------------------------------------
\* The cached task with all the calls that set its runtime: CreateRuntime,
\* PatchRuntime, ReplaceRuntime and GetRunTime, one call at a time, on a
\* task whose mesos task id stays the one of its first run.

\* Revision.GetVersion(): a nil Revision reads as version 0.
GetVersion(rt) == IF rt.revision = NoRevision THEN 0 ELSE rt.revision

\* The runtimes the store holds at first: any state, any desired mesos task
\* id, with or without a revision.
CachedRuntimes ==
    {RuntimeInfo(s, RunID(1), NoID, d, "", "", r) :
        s \in TaskState, d \in DesiredIDs, r \in {NoRevision, 0}}

\* The runtimes CreateRuntime and ReplaceRuntime are called with.
GivenRuntimes ==
    {RuntimeInfo(s, RunID(1), NoID, NoID, "", "", r) :
        s \in {"INITIALIZED"}, r \in {NoRevision} \cup 0..MaxVersion}

\* The diffs PatchRuntime is called with: a state, with or without a
\* desired mesos task id.
CacheDiffs ==
    {RuntimeDiff(Present(s), Absent(NoID), Absent(NoID), d, Absent(""),
                 Absent("Killing the task")) :
        s \in {"KILLING", "RUNNING"},
        d \in {Absent(NoID)} \cup {Present(i) : i \in DesiredIDs \ {NoID}}}

CacheFaults == {"none", "readErr", "writeErr"}

CacheRet(op, err, verdict, arg, force, fault) ==
    [op |-> op, err |-> err, verdict |-> verdict, arg |-> arg,
     force |-> force, fault |-> fault]

\* CreateRuntime that caches the runtime whether or not the store took it.
createRuntimeKept(st, rt, fault) ==
    IF fault = "writeErr"
    THEN Outcome(rt, st, "error", "none", TRUE)
    ELSE Outcome(rt, rt, "nil", "none", TRUE)

\* CreateRuntime under the lock: the runtime is written to the store and
\* cached when the store took it; otherwise the cache is cleared.
createRuntime(st, rt, fault) ==
    IF fault = "writeErr"
    THEN Outcome(Nil, st, "error", "none", TRUE)
    ELSE Outcome(rt, rt, "nil", "none", TRUE)

\* ReplaceRuntime that takes a runtime of the same version.
replaceRuntimeSameVersion(cache, rt, forceReplace) ==
    IF rt.isNil THEN [runtime |-> cache, err |-> "InvalidArgument"]
    ELSE IF rt.revision = NoRevision
    THEN [runtime |-> cache, err |-> "InvalidArgument"]
    ELSE [runtime |-> rt, err |-> "nil"]

\* ReplaceRuntime(runtime, forceReplace).
replaceRuntime(cache, rt, forceReplace) ==
    IF rt.isNil THEN [runtime |-> cache, err |-> "InvalidArgument"]
    ELSE IF rt.revision = NoRevision
    THEN [runtime |-> cache, err |-> "InvalidArgument"]
    ELSE IF forceReplace THEN [runtime |-> rt, err |-> "nil"]
    ELSE IF cache.isNil THEN [runtime |-> rt, err |-> "nil"]
    ELSE IF GetVersion(rt) > GetVersion(cache)
    THEN [runtime |-> rt, err |-> "nil"]
    ELSE [runtime |-> cache, err |-> "nil"]

\* GetRunTime: the cached runtime, read from the store when there is none.
getRunTime(cache, st, fault) ==
    IF ~cache.isNil THEN [runtime |-> cache, err |-> "nil"]
    ELSE IF fault = "readErr" THEN [runtime |-> cache, err |-> "error"]
    ELSE [runtime |-> st, err |-> "nil"]

InitCache ==
    /\ store \in CachedRuntimes
    /\ runtime \in {Nil, store}
    /\ ret = CacheRet("none", "nil", "none", Nil, FALSE, "none")
    /\ taskConfig = [maxFailures |-> 0]
    /\ IdleConc
    /\ IdleServer
    /\ IdleTree
    /\ IdleEngine
    /\ IdleJob
    /\ IdleExt

CreateRuntime ==
    /\ \E rt \in GivenRuntimes, fault \in {"none", "writeErr"} :
         \E out \in {createRuntime(store, rt, fault)} :
            /\ runtime' = out.runtime
            /\ store' = out.store
            /\ ret' = CacheRet("CreateRuntime", out.err, out.verdict, rt, FALSE,
                               fault)
    /\ UNCHANGED <<taskConfig, concVars, srvVars, treeVars, engineVars,
                   jobVars, extVars>>

CachePatchRuntime ==
    /\ \E diff \in CacheDiffs, fault \in CacheFaults :
         \E out \in {patchRuntime(runtime, store, diff, fault)} :
            /\ VersionInBound(out)
            /\ runtime' = out.runtime
            /\ store' = out.store
            /\ ret' = CacheRet("PatchRuntime", out.err, out.verdict, diff,
                               FALSE, fault)
    /\ UNCHANGED <<taskConfig, concVars, srvVars, treeVars, engineVars,
                   jobVars, extVars>>

ReplaceRuntime ==
    /\ \E rt \in GivenRuntimes \cup {Nil}, forceReplace \in BOOLEAN :
         \E out \in {replaceRuntime(runtime, rt, forceReplace)} :
            /\ runtime' = out.runtime
            /\ ret' = CacheRet("ReplaceRuntime", out.err, "none", rt,
                               forceReplace, "none")
    /\ UNCHANGED store
    /\ UNCHANGED <<taskConfig, concVars, srvVars, treeVars, engineVars,
                   jobVars, extVars>>

GetRunTime ==
    /\ \E fault \in {"none", "readErr"} :
         \E out \in {getRunTime(runtime, store, fault)} :
            /\ runtime' = out.runtime
            /\ ret' = CacheRet("GetRunTime", out.err, "none", out.runtime,
                               FALSE, fault)
    /\ UNCHANGED store
    /\ UNCHANGED <<taskConfig, concVars, srvVars, treeVars, engineVars,
                   jobVars, extVars>>

NextCache == CreateRuntime \/ CachePatchRuntime \/ ReplaceRuntime \/ GetRunTime

SpecCache == InitCache /\ [][NextCache]_vars

IsCacheStep(op) == ret'.op = op

\* A PatchRuntime step whose diff names the state KILLING, on a task that
\* is not KILLING, and that reached the validation.
IsKillingPatch ==
    /\ IsCacheStep("PatchRuntime")
    /\ ret'.verdict # "none"
    /\ ret'.arg.state = Present("KILLING")
    /\ CurrentRuntime.state # "KILLING"

\* The diff of the step names no desired mesos task id, or one that
\* validateMesosTaskID accepts after the current one.
DesiredIDKept ==
    \/ ~ret'.arg.desiredMesosTaskId.has
    \/ validateMesosTaskID(ret'.arg.desiredMesosTaskId.v,
                           CurrentRuntime.desiredMesosTaskId)

WriteTried ==
    \/ IsCacheStep("CreateRuntime")
    \/ IsCacheStep("PatchRuntime") /\ ret'.verdict = "accepted"

\* C34: when the store write of CreateRuntime or PatchRuntime fails, the
\* call returns the error, the store keeps what it had and the cached
\* runtime is cleared; when it succeeds the cached runtime is the one the
\* store holds; GetRunTime on a cleared cache returns the runtime of the
\* store and caches it.
C34_CacheFollowsStore ==
    [][/\ (WriteTried /\ ret'.fault = "writeErr")
            => /\ ret'.err = "error"
               /\ runtime' = Nil
               /\ store' = store
       /\ (WriteTried /\ ret'.fault # "writeErr")
            => /\ ret'.err = "nil"
               /\ runtime' = store'
       /\ (IsCacheStep("GetRunTime") /\ runtime = Nil /\ ret'.err = "nil")
            => /\ runtime' = store
               /\ ret'.arg = store]_vars

\* A PatchRuntime whose write failed left the cache cleared.
C34_Witness ==
    /\ ret.op = "PatchRuntime"
    /\ ret.fault = "writeErr"
    /\ ret.verdict = "accepted"
    /\ ret.err = "error"
    /\ runtime = Nil

\* C35: every PatchRuntime that passes validation and is persisted stores a
\* runtime whose revision version is one greater than the version cached
\* before the call, a runtime without revision counting as version 0; a
\* rejected patch does not change the version.
C35_VersionPlusOne ==
    [][IsCacheStep("PatchRuntime")
       => /\ (ret'.verdict = "accepted" /\ ret'.err = "nil")
               => GetVersion(store') = GetVersion(CurrentRuntime) + 1
          /\ ret'.verdict = "rejected"
               => /\ ~runtime'.isNil
                  /\ runtime'.revision = CurrentRuntime.revision
                  /\ store' = store]_vars

\* The runtime ReplaceRuntime was called with has a revision.
HasRevision(rt) == IF rt.isNil THEN FALSE ELSE rt.revision # NoRevision

\* C36: ReplaceRuntime without forceReplace replaces the cache exactly when
\* the cache is empty or the version of the given runtime is greater than
\* the cached one, so the cached version is never lowered; a nil runtime and
\* a runtime without revision are answered with InvalidArgument and leave
\* the cache as it was.
C36_ReplaceNeverLowers ==
    [][IsCacheStep("ReplaceRuntime")
       => /\ ~HasRevision(ret'.arg)
               => /\ ret'.err = "InvalidArgument"
                  /\ runtime' = runtime
          /\ (HasRevision(ret'.arg) /\ ~ret'.force)
               => /\ ret'.err = "nil"
                  /\ runtime' =
                        IF runtime.isNil THEN ret'.arg
                        ELSE IF ret'.arg.revision > GetVersion(runtime)
                        THEN ret'.arg ELSE runtime
                  /\ ~runtime.isNil
                        => GetVersion(runtime') >= GetVersion(runtime)]_vars

\* A ReplaceRuntime with a runtime of the cached version left the cache.
C36_Witness ==
    /\ ret.op = "ReplaceRuntime"
    /\ ret.err = "nil"
    /\ ~ret.force
    /\ ~runtime.isNil
    /\ runtime # ret.arg
    /\ GetVersion(runtime) = GetVersion(ret.arg)

----------------------------------------------------------------------------
\* health: the heartbeat started by InitHeartbeat, its loop and the callers
\* of Start and Stop.

\* The zero value of a channel: a send to it and a receive from it block
\* for ever.
NilChan == "nil"

HbCallers == {1, 2, 3}

\* The cases of the loop's select that can be taken: the timer fires after
\* the heartbeat interval; a receive from stopChan needs a channel and a
\* sender waiting at it.
readyCases(h) ==
    {"ticker"} \cup
    (IF h.stopChan # NilChan
        /\ \E c \in HbCallers : h.pc[c] = "Stop.send"
     THEN {"stopChan"} ELSE {})

\* heartbeat.Start under the Mutex: Running.Swap(true), and the loop is
\* spawned when the heartbeat was not running.
heartbeatStart(h, c) ==
    [h EXCEPT !.Running = TRUE,
              !.loop = IF h.Running THEN h.loop ELSE "select",
              !.ret[c] = IF h.Running THEN "Start.no-op" ELSE "Start.started"]

\* InitHeartbeat: the heartbeat is built from metrics, interval and
\* candidate, stopChan keeps its zero value, then Start is called.
InitHeartbeat(isLeader) ==
    heartbeatStart([Running   |-> FALSE,
                    stopChan  |-> NilChan,
                    mu        |-> NoProc,
                    loop      |-> "none",
                    Heartbeat |-> 0,
                    Leader    |-> 0,
                    isLeader  |-> isLeader,
                    pc        |-> [c \in HbCallers |-> "idle"],
                    ret       |-> [c \in HbCallers |-> "none"]], 1)

InitHb ==
    /\ \E isLeader \in BOOLEAN : hb = InitHeartbeat(isLeader)
    /\ dtracker = NoHostRet
    /\ IdleCleaner
    /\ mesosCalls = <<>>
    /\ hostRet = NoHostRet
    /\ runtime = Nil
    /\ store = Nil
    /\ ret = [op |-> "none"]
    /\ taskConfig = [maxFailures |-> 0]
    /\ IdleConc
    /\ IdleServer
    /\ IdleTree
    /\ IdleEngine
    /\ IdleJob

HbUnchanged ==
    UNCHANGED <<taskVars, concVars, srvVars, treeVars, engineVars, jobVars,
                mesosCalls, hostRet, dtracker, cleanerVars>>

\* heartbeat.Start(): Lock, Swap, Unlock; it waits while the Mutex is held.
HeartbeatStart(c) ==
    /\ hb.pc[c] = "idle"
    /\ hb.mu = NoProc
    /\ hb' = heartbeatStart(hb, c)
    /\ HbUnchanged

\* heartbeat.Stop() up to Lock: a heartbeat that is not running is left
\* alone, otherwise the caller goes for the Mutex.
HeartbeatStop(c) ==
    /\ hb.pc[c] = "idle"
    /\ hb' = IF ~hb.Running
             THEN [hb EXCEPT !.ret[c] = "Stop.no-op"]
             ELSE [hb EXCEPT !.pc[c] = "Stop.Lock", !.ret[c] = "Stop.called"]
    /\ HbUnchanged

\* The next step of a caller inside Stop: Lock when the Mutex is free; the
\* send to stopChan is finished by the receiver only; the wait ends when
\* Running is false, and the deferred Unlock follows.
StopStep(c) ==
    /\ hb.pc[c] \in {"Stop.Lock", "Stop.wait"}
    /\ IF hb.pc[c] = "Stop.Lock"
       THEN /\ hb.mu = NoProc
            /\ hb' = [hb EXCEPT !.mu = c, !.pc[c] = "Stop.send"]
       ELSE /\ ~hb.Running
            /\ hb' = [hb EXCEPT !.mu = NoProc, !.pc[c] = "idle",
                                !.ret[c] = "Stop.stopped"]
    /\ HbUnchanged

\* One round of the loop: select on stopChan and the timer.
HeartbeatLoop ==
    /\ hb.loop = "select"
    /\ \E case \in readyCases(hb) :
         IF case = "stopChan"
         THEN \E c \in HbCallers :
                 /\ hb.pc[c] = "Stop.send"
                 /\ hb' = [hb EXCEPT !.loop = "exited", !.Running = FALSE,
                                     !.pc[c] = "Stop.wait"]
         ELSE hb' = [hb EXCEPT !.Heartbeat = 1,
                               !.Leader = IF hb.isLeader THEN 1 ELSE 0]
    /\ HbUnchanged

\* candidate: the leadership is gained or lost.
LeaderChanges ==
    /\ hb' = [hb EXCEPT !.isLeader = ~hb.isLeader]
    /\ HbUnchanged

NextHeartbeat ==
    \/ \E c \in HbCallers : HeartbeatStart(c)
    \/ \E c \in HbCallers : HeartbeatStop(c)
    \/ \E c \in HbCallers : StopStep(c)
    \/ HeartbeatLoop
    \/ LeaderChanges

\* The loop and the callers inside Stop are goroutines the scheduler keeps
\* running.
SpecHeartbeat ==
    /\ InitHb
    /\ [][NextHeartbeat]_vars
    /\ WF_vars(HeartbeatLoop)
    /\ \A c \in HbCallers : WF_vars(StopStep(c))

\* C37: a Stop called while the heartbeat loop started by InitHeartbeat is
\* running eventually returns, and when it has returned the loop has exited
\* and Running is false.
C37_StopReturns ==
    \A c \in HbCallers :
        (hb.ret[c] = "Stop.called")
            ~> (hb.ret[c] = "Stop.stopped" /\ ~hb.Running)

----------------------------------------------------------------------------
\* The task deadline tracker: Start, Stop and the tracking loop.

RunningStateNotStarted == 0
RunningStateRunning == 1

\* The number of channels Start may make.
MaxStarts == 3

DtCallers == {1, 2}

\* The channels: 0 is the nil channel of New, the others are made by Start.
NilStopChan == 0

\* New: runningState RunningStateNotStarted, every other field zero.
New ==
    [runningState |-> RunningStateNotStarted,
     stopChan     |-> NilStopChan,
     made         |-> 0,
     closed       |-> {},
     lock         |-> NoProc,
     loops        |-> {},
     pc           |-> [c \in DtCallers |-> "idle"],
     ret          |-> [c \in DtCallers |-> "none"]]

\* The loop reads t.stopChan for its select without the lock while Start
\* writes it under the lock: the read yields the channel the loop read
\* before or the one Start has written since.
selectChanStale(ch, current) == {ch}
selectChan(ch, current) == {ch, current}

\* tracker.Start between Lock and Unlock: a new stopChan is made, and the
\* loop is spawned when the compare-and-swap of runningState succeeds.
startTrackerAlways(t, c) ==
    [t EXCEPT !.stopChan = t.made + 1,
              !.made = t.made + 1,
              !.runningState = RunningStateRunning,
              !.loops = t.loops \cup {[id |-> t.made + 1, ch |-> t.made + 1]},
              !.ret[c] = IF t.runningState = RunningStateNotStarted
                         THEN "Start.started" ELSE "Start.running"]
startTracker(t, c) ==
    [t EXCEPT !.stopChan = t.made + 1,
              !.made = t.made + 1,
              !.runningState = RunningStateRunning,
              !.loops = IF t.runningState = RunningStateNotStarted
                        THEN t.loops \cup
                                {[id |-> t.made + 1, ch |-> t.made + 1]}
                        ELSE t.loops,
              !.ret[c] = IF t.runningState = RunningStateNotStarted
                         THEN "Start.started" ELSE "Start.running"]

\* tracker.Stop from Lock to the wait: a tracker that is not running is
\* left alone and the lock released; otherwise stopChan is closed, which
\* panics for a nil channel and for a closed one, and the caller waits with
\* the lock held.
stopTracker(t, c) ==
    IF t.runningState = RunningStateNotStarted
    THEN [t EXCEPT !.ret[c] = "Stop.no-op"]
    ELSE IF t.stopChan = NilStopChan \/ t.stopChan \in t.closed
    THEN [t EXCEPT !.ret[c] = "Stop.panic"]
    ELSE [t EXCEPT !.closed = t.closed \cup {t.stopChan},
                   !.lock = c,
                   !.pc[c] = "Stop.wait",
                   !.ret[c] = "Stop.closed"]

InitTracker ==
    /\ dtracker = New
    /\ hb = NoHostRet
    /\ IdleCleaner
    /\ mesosCalls = <<>>
    /\ hostRet = NoHostRet
    /\ runtime = Nil
    /\ store = Nil
    /\ ret = [op |-> "none"]
    /\ taskConfig = [maxFailures |-> 0]
    /\ IdleConc
    /\ IdleServer
    /\ IdleTree
    /\ IdleEngine
    /\ IdleJob

TrackerUnchanged ==
    UNCHANGED <<taskVars, concVars, srvVars, treeVars, engineVars, jobVars,
                mesosCalls, hostRet, hb, cleanerVars>>

\* tracker.Start()
TrackerStart(c) ==
    /\ dtracker.pc[c] = "idle"
    /\ dtracker.lock = NoProc
    /\ dtracker.made < MaxStarts
    /\ dtracker' = startTracker(dtracker, c)
    /\ TrackerUnchanged

\* tracker.Stop() up to the wait for the loop.
TrackerStop(c) ==
    /\ dtracker.pc[c] = "idle"
    /\ dtracker.lock = NoProc
    /\ dtracker' = stopTracker(dtracker, c)
    /\ TrackerUnchanged

\* The wait of Stop ends when runningState is no longer
\* RunningStateRunning; the deferred Unlock follows.
TrackerStopWait(c) ==
    /\ dtracker.pc[c] = "Stop.wait"
    /\ dtracker.runningState # RunningStateRunning
    /\ dtracker' = [dtracker EXCEPT !.lock = NoProc,
                                    !.pc[c] = "idle",
                                    !.ret[c] = "Stop.stopped"]
    /\ TrackerUnchanged

\* The ticker fires: trackDeadline runs and the loop selects again, on the
\* channel it reads from t.stopChan.
TrackerTick ==
    /\ \E l \in dtracker.loops :
         /\ l.ch \notin dtracker.closed
         /\ \E ch \in selectChan(l.ch, dtracker.stopChan) :
              dtracker' =
                [dtracker EXCEPT !.loops = (dtracker.loops \ {l})
                                             \cup {[l EXCEPT !.ch = ch]}]
    /\ TrackerUnchanged

\* The loop's receive from a closed stopChan: the loop returns and the
\* deferred store sets runningState to RunningStateNotStarted.
TrackerExit ==
    /\ \E l \in dtracker.loops :
         /\ l.ch \in dtracker.closed
         /\ dtracker' = [dtracker EXCEPT
                            !.loops = dtracker.loops \ {l},
                            !.runningState = RunningStateNotStarted]
    /\ TrackerUnchanged

NextTracker ==
    \/ \E c \in DtCallers : TrackerStart(c)
    \/ \E c \in DtCallers : TrackerStop(c)
    \/ \E c \in DtCallers : TrackerStopWait(c)
    \/ TrackerTick
    \/ TrackerExit

\* The ticker keeps firing and a channel written by Start is read by the
\* loop after some tick; the loop and the callers inside Stop keep running.
SpecTracker ==
    /\ InitTracker
    /\ [][NextTracker]_vars
    /\ WF_vars(TrackerTick)
    /\ WF_vars(TrackerExit)
    /\ \A c \in DtCallers : WF_vars(TrackerStopWait(c))

\* C38: whatever the interleaving of Start and Stop calls, at most one
\* tracking loop exists at a time: a Start on a running tracker starts no
\* loop, and a Stop on a tracker that is not running closes no channel and
\* changes nothing but its own result.
C38_OneLoop ==
    /\ [](Cardinality(dtracker.loops) <= 1)
    /\ [][/\ (/\ dtracker'.made # dtracker.made
              /\ dtracker.runningState = RunningStateRunning)
               => dtracker'.loops = dtracker.loops
          /\ dtracker'.closed # dtracker.closed
               => dtracker.runningState = RunningStateRunning
          /\ \A c \in DtCallers :
               (/\ dtracker'.ret[c] = "Stop.no-op"
                /\ dtracker.ret[c] # "Stop.no-op")
                 => /\ dtracker.runningState = RunningStateNotStarted
                    /\ dtracker' = [dtracker EXCEPT !.ret[c] = "Stop.no-op"]]_vars

\* A Start found the tracker running and a Stop found it not running, and
\* one loop exists.
C38_Witness ==
    /\ dtracker.ret[1] = "Start.running"
    /\ dtracker.ret[2] = "Stop.no-op"
    /\ Cardinality(dtracker.loops) = 1

\* C39: a Stop on a running tracker eventually returns, whatever Start
\* calls came before it; when it returns no tracking loop is left and
\* runningState is RunningStateNotStarted, and a Start on a tracker in that
\* state starts a loop.
C39_StopReturns ==
    /\ \A c \in DtCallers :
         (dtracker.ret[c] = "Stop.closed") ~> (dtracker.ret[c] = "Stop.stopped")
    /\ [][\A c \in DtCallers :
            /\ (dtracker.pc[c] = "Stop.wait" /\ dtracker'.pc[c] = "idle")
                 => /\ dtracker'.loops = {}
                    /\ dtracker'.runningState = RunningStateNotStarted
                    /\ dtracker'.lock = NoProc
            /\ (/\ dtracker'.made # dtracker.made
                /\ dtracker.runningState = RunningStateNotStarted)
                 => /\ Cardinality(dtracker'.loops) = 1
                    /\ dtracker'.runningState = RunningStateRunning]_vars

\* A Stop returned after two Start calls, and the tracker was started
\* again.
C39_Witness ==
    /\ dtracker.ret[1] = "Stop.stopped"
    /\ dtracker.ret[2] = "Start.started"
    /\ dtracker.made = 3
    /\ dtracker.closed = {2}
    /\ dtracker.runningState = RunningStateRunning

----------------------------------------------------------------------------
\* hostmgr: the reservation cleaner.

ReservedOfferIDs == {"offer1", "offer2"}
ReservationLabels == {"label1", "label2"}
VolumeIDs == {"volume1", "volume2"}
VolumeGoalStates == {"CREATED", "DELETED"}

\* Every order in which a range over a map with these keys can visit them.
IterationOrders(keys) ==
    {o \in [1 .. Cardinality(keys) -> keys] :
        \A i, j \in DOMAIN o : i # j => o[i] # o[j]}

\* What GetLabeledReservedResources returns for one offer: per reservation
\* label the ids of the label's volumes; a volume belongs to one label.
VolumeLists ==
    {<<>>} \cup {<<v>> : v \in VolumeIDs}
           \cup {vs \in VolumeIDs \X VolumeIDs : vs[1] # vs[2]}

LabeledReservedResources ==
    UNION {{res \in [ls -> VolumeLists] :
               \A l1, l2 \in ls :
                   l1 # l2 => Range(res[l1]) \cap Range(res[l2]) = {}} :
           ls \in (SUBSET ReservationLabels) \ {{}}}

VolumesOf(res) == UNION {Range(res[l]) : l \in DOMAIN res}

\* The reserved offers of the pool: a volume is part of one offer.
ReservedOfferPools ==
    UNION {{pool \in [os -> LabeledReservedResources] :
               \A o1, o2 \in os :
                   o1 # o2 =>
                     VolumesOf(pool[o1]) \cap VolumesOf(pool[o2]) = {}} :
           os \in SUBSET ReservedOfferIDs}

CleanerOperation(type, arg) == [type |-> type, arg |-> arg]

\* The ACCEPT call for an offer and its offer operations.
AcceptCall(offer, operations) ==
    [type |-> "ACCEPT", offer |-> offer, operations |-> operations]

\* cleaner.needCleanVolume: false when the volume store cannot be read,
\* else whether the stored goal state is DELETED.
needCleanVolumeAlways(volumes, failing, volumeID) == TRUE
needCleanVolume(volumes, failing, volumeID) ==
    IF volumeID \in failing THEN FALSE
    ELSE volumes[volumeID] = "DELETED"

\* cleaner.cleanOffer: the labels are visited in the order of the range;
\* the first label without volumes is unreserved, the first label whose
\* first volume needs cleaning has the volume destroyed and is unreserved,
\* and the visit ends there.
RECURSIVE cleanOffer(_, _, _, _)
cleanOffer(res, labels, volumes, failing) ==
    IF labels = <<>> THEN <<>>
    ELSE IF Len(res[Head(labels)]) = 0
    THEN <<CleanerOperation("UNRESERVE", Head(labels))>>
    ELSE IF needCleanVolume(volumes, failing, res[Head(labels)][1])
    THEN <<CleanerOperation("DESTROY", res[Head(labels)][1]),
           CleanerOperation("UNRESERVE", Head(labels))>>
    ELSE cleanOffer(res, Tail(labels), volumes, failing)

\* cleaner.cleanUnusedVolumes: every reserved offer is cleaned in turn; an
\* offer with operations is removed from the pool before the call, and no
\* call is sent when the operations factory fails.
RECURSIVE cleanUnusedVolumes(_, _, _, _, _, _, _)
cleanUnusedVolumes(pool, sent, offers, labelsOf, volumes, failing, bad) ==
    IF offers = <<>> THEN [pool |-> pool, calls |-> sent]
    ELSE LET offer == Head(offers)
             operations == cleanOffer(pool[offer], labelsOf[offer], volumes,
                                      failing)
             kept == [o \in (DOMAIN pool) \ {offer} |-> pool[o]]
         IN  IF operations = <<>>
             THEN cleanUnusedVolumes(pool, sent, Tail(offers), labelsOf,
                                     volumes, failing, bad)
             ELSE cleanUnusedVolumes(kept,
                     IF offer \in bad THEN sent
                     ELSE Append(sent, AcceptCall(offer, operations)),
                     Tail(offers), labelsOf, volumes, failing, bad)

InitCleaner ==
    /\ reservedOffers \in ReservedOfferPools
    /\ volumeStore \in [VolumeIDs -> VolumeGoalStates]
    /\ cleanerRet = NoHostRet
    /\ mesosCalls = <<>>
    /\ hostRet = NoHostRet
    /\ IdleLoops
    /\ runtime = Nil
    /\ store = Nil
    /\ ret = [op |-> "none"]
    /\ taskConfig = [maxFailures |-> 0]
    /\ IdleConc
    /\ IdleServer
    /\ IdleTree
    /\ IdleEngine
    /\ IdleJob

CleanerUnchanged ==
    UNCHANGED <<taskVars, concVars, srvVars, treeVars, engineVars, jobVars,
                hostRet, loopVars>>

\* cleaner.Run(isRunning): the volume store fails for the reads of some
\* volumes and the operations factory for some offers.
Run ==
    /\ \E offers \in IterationOrders(DOMAIN reservedOffers),
          failing \in SUBSET VolumeIDs,
          bad \in SUBSET ReservedOfferIDs :
         \E labelsOf \in [DOMAIN reservedOffers ->
                             UNION {IterationOrders(ls) :
                                    ls \in SUBSET ReservationLabels}] :
            /\ \A o \in DOMAIN reservedOffers :
                  Range(labelsOf[o]) = DOMAIN reservedOffers[o]
            /\ \E out \in {cleanUnusedVolumes(reservedOffers, mesosCalls,
                              offers, labelsOf, volumeStore, failing, bad)} :
                 /\ reservedOffers' = out.pool
                 /\ mesosCalls' = out.calls
                 /\ cleanerRet' = [op |-> "Run", failing |-> failing,
                                   bad |-> bad]
    /\ UNCHANGED volumeStore
    /\ CleanerUnchanged

\* The goal state of a volume is set to DELETED in the volume store.
DeleteVolume ==
    /\ \E v \in VolumeIDs :
         /\ volumeStore[v] # "DELETED"
         /\ volumeStore' = [volumeStore EXCEPT ![v] = "DELETED"]
    /\ UNCHANGED <<reservedOffers, cleanerRet, mesosCalls>>
    /\ CleanerUnchanged

NextCleaner == Run \/ DeleteVolume

SpecCleaner == InitCleaner /\ [][NextCleaner]_vars

IsRunStep ==
    /\ cleanerRet'.op = "Run"
    /\ <<reservedOffers', mesosCalls', cleanerRet'>>
           # <<reservedOffers, mesosCalls, cleanerRet>>

\* The operations a step sent to Mesos for an offer.
SentFor(offer) ==
    UNION {Range(mesosCalls'[i].operations) :
           i \in {j \in (Len(mesosCalls) + 1) .. Len(mesosCalls') :
                     mesosCalls'[j].offer = offer}}

\* The read of the volume's goal state failed or gave another state than
\* DELETED.
NotToClean(v) == v \in cleanerRet'.failing \/ volumeStore[v] # "DELETED"

\* Another label of the offer is one the cleaner cleans.
OtherLabelCleaned(res, l) ==
    \E l2 \in (DOMAIN res) \ {l} :
        IF res[l2] = <<>> THEN TRUE ELSE ~NotToClean(res[l2][1])

\* C40: the cleaner sends a DESTROY for a volume of a reserved offer only if
\* the volume's stored goal state is DELETED; when the store read fails or
\* the goal state is anything else for the first volume of a reservation
\* label, no DESTROY is sent for the volume and no UNRESERVE for its label,
\* and the offer stays in the pool unless another label of the offer has no
\* volume or a first volume whose goal state is read as DELETED.
C40_DestroyOnlyDeleted ==
    [][IsRunStep =>
        \A o \in DOMAIN reservedOffers :
          \A l \in DOMAIN reservedOffers[o] :
            /\ \A v \in Range(reservedOffers[o][l]) :
                 CleanerOperation("DESTROY", v) \in SentFor(o)
                     => ~NotToClean(v)
            /\ (/\ reservedOffers[o][l] # <<>>
                /\ NotToClean(reservedOffers[o][l][1]))
                 => /\ CleanerOperation("DESTROY", reservedOffers[o][l][1])
                          \notin SentFor(o)
                    /\ CleanerOperation("UNRESERVE", l) \notin SentFor(o)
                    /\ o \notin DOMAIN reservedOffers'
                          => OtherLabelCleaned(reservedOffers[o], l)]_vars

\* A Run destroyed a volume whose goal state is DELETED and left in the
\* pool an offer whose volume could not be read.
C40_Witness ==
    /\ cleanerRet.op = "Run"
    /\ \E i \in DOMAIN mesosCalls :
         \E v \in VolumeIDs \ cleanerRet.failing :
            /\ volumeStore[v] = "DELETED"
            /\ CleanerOperation("DESTROY", v) \in Range(mesosCalls[i].operations)
    /\ \E o \in DOMAIN reservedOffers :
         \E l \in DOMAIN reservedOffers[o] :
            IF reservedOffers[o][l] = <<>> THEN FALSE
            ELSE reservedOffers[o][l][1] \in cleanerRet.failing

\* C40 as stated: when the store read fails or the goal state is anything
\* else than DELETED for a volume of a reserved offer, no DESTROY and no
\* UNRESERVE is sent for the volume and the offer stays in the pool.
C40_OfferKept ==
    [][IsRunStep =>
        \A o \in DOMAIN reservedOffers :
          \A l \in DOMAIN reservedOffers[o] :
            \A v \in Range(reservedOffers[o][l]) :
              /\ CleanerOperation("DESTROY", v) \in SentFor(o)
                     => ~NotToClean(v)
              /\ NotToClean(v)
                     => /\ CleanerOperation("DESTROY", v) \notin SentFor(o)
                        /\ CleanerOperation("UNRESERVE", l) \notin SentFor(o)
                        /\ o \in DOMAIN reservedOffers']_vars

====
